---- MODULE Spec2Model ----
(***************************************************************************)
(* A model of the raw <-> BVP converters (bvp-converters).                 *)
(*                                                                         *)
(* The state machine is the three-stage parallel raw -> BVP pipeline of    *)
(* raw_to_bvp/parallel.rs: stage 1 (one thread) cuts the volume into work  *)
(* packets, stage 2 (NumWorkers threads) cuts, hashes, deduplicates and    *)
(* compresses the sub-blocks, stage 3 (one thread) appends the block files *)
(* to the ZIP archive, and the main thread joins the scope and writes the  *)
(* manifest.  The block engine (lib/block.rs), the vector arithmetic       *)
(* (lib/vector3.rs), the format (lib/formats.rs), the LZ4S codec           *)
(* (compression.rs), the sequential encoder (raw2bvp.rs) and the           *)
(* reassembly walk (bvp2raw.rs) are pure operators.                        *)
(*                                                                         *)
(* Vectors are triples <<x, y, z>>.  Byte buffers are sequences of naturals.*)
(* An Option is None (the empty tuple) or Some(v) (the tuple of v).        *)
(***************************************************************************)
EXTENDS Integers, Sequences, FiniteSets, TLC

\* ------------------------------------------------------------------------
\* Bounds of the model
\* ------------------------------------------------------------------------

\* number of stage-2 workers (available_parallelism() in the program)
NumWorkers == 2

\* bytes of the raw volume are drawn from 0..MaxByte
MaxByte == 2

\* xxh3_64 is modelled by a hash with HashMod buckets, so that collisions
\* between different buffers occur on small inputs
HashMod == 2

\* stage 1 is run on every grid whose dimensions and block dimensions are at
\* most MaxGridDim along x and y
MaxGridDim == 3

\* get_data_in_range and set_data_in_range are called on blocks of at most
\* MaxBlockDim voxels along x
MaxBlockDim == 2

\* the codec is run on every sequence of at most MaxLz4Len bytes over {0, 1}
MaxLz4Len == 11

\* the archives hold at most MaxSafFiles members
MaxSafFiles == 2

\* the manifests read by bvp2raw hold at most MaxManifestBlocks blocks
MaxManifestBlocks == 2

\* Option<T>: None is the empty tuple, Some(v) the tuple of v
None == <<>>
Some(v) == <<v>>
Unwrap(o) == o[1]

\* ------------------------------------------------------------------------
\* lib/vector3.rs
\* ------------------------------------------------------------------------

Pow2(n) == 2 ^ n

RECURSIVE BitLen(_)
\* number of significant bits of n (0 for n = 0)
BitLen(n) == IF n = 0 THEN 0 ELSE 1 + BitLen(n \div 2)

\* n rounded to a multiple of unit (a power of two >= 2): to nearest, ties to
\* the even multiple
RoundToUnit(n, unit) ==
    LET q    == n \div unit
        r    == n % unit
        half == unit \div 2
    IN  IF r > half \/ (r = half /\ q % 2 = 1) THEN (q + 1) * unit ELSE q * unit

\* n of L significant bits on a 24-bit mantissa
RoundToMantissa(n, L) == IF L <= 24 THEN n ELSE RoundToUnit(n, Pow2(L - 24))

\* `n as f32` for a u32 n: round to nearest, ties to even, on a 24-bit mantissa.
\* The result is the integer value of the float.
F32(n) == RoundToMantissa(n, BitLen(n))

RECURSIVE FracBits(_, _, _, _)
\* n further binary digits of rem / b (rem < b): [m |-> the digits as a number,
\* rem |-> the remainder after them]
FracBits(rem, b, n, m) ==
    IF n = 0 THEN [m |-> m, rem |-> rem]
    ELSE IF 2 * rem >= b THEN FracBits(2 * rem - b, b, n - 1, 2 * m + 1)
    ELSE FracBits(2 * rem, b, n - 1, 2 * m)

\* the quotient k + (fraction of nf kept digits, kept) rounded on the digit
\* after them: to nearest, ties to even
RoundFraction(k, bf, nf, kept) ==
    LET rbit   == 2 * kept.rem >= bf
        sticky == IF 2 * kept.rem >= bf THEN 2 * kept.rem - bf # 0 ELSE kept.rem # 0
        lsb    == IF nf = 0 THEN k % 2 ELSE kept.m % 2
        m2     == IF rbit /\ (sticky \/ lsb = 1) THEN kept.m + 1 ELSE kept.m
    IN  IF m2 = Pow2(nf) THEN [int |-> k + 1, frac |-> FALSE]
        ELSE [int |-> k, frac |-> m2 # 0]

\* the f32 nearest to k + r / bf (0 <= r < bf), k of L significant bits
RoundQuotient(k, r, bf, L) ==
    IF r = 0 THEN [int |-> F32(k), frac |-> FALSE]
    ELSE IF k = 0 THEN [int |-> 0, frac |-> TRUE]
    ELSE IF L > 24 THEN
        \* the rounding falls inside the integer part
        [int |-> IF 2 * (k % Pow2(L - 24)) >= Pow2(L - 24)
                 THEN ((k \div Pow2(L - 24)) + 1) * Pow2(L - 24)
                 ELSE (k \div Pow2(L - 24)) * Pow2(L - 24),
         frac |-> FALSE]
    ELSE RoundFraction(k, bf, 24 - L, FracBits(r, bf, 24 - L, 0))

\* the quotient of two f32 values that hold integers
F32Quotient(af, bf) == RoundQuotient(af \div bf, af % bf, bf, BitLen(af \div bf))

\* `a as f32 / b as f32` (b > 0): the correctly rounded f32 quotient, given as
\* [int |-> its integer part, frac |-> whether it has a non-zero fraction].
F32Div(a, b) == F32Quotient(F32(a), F32(b))

\* Div for Vector3<u32>, then Vector3<f32>::ceil
CeilToU32(q) == IF q.frac THEN q.int + 1 ELSE q.int

DivCeil(a, b) == [i \in 1..3 |-> CeilToU32(F32Div(a[i], b[i]))]

\* Div for Vector3<u32>, then Vector3<f32>::to_u32
DivToU32(a, b) == [i \in 1..3 |-> F32Div(a[i], b[i]).int]

VAdd(a, b) == [i \in 1..3 |-> a[i] + b[i]]
VSub(a, b) == [i \in 1..3 |-> a[i] - b[i]]
VMul(a, b) == [i \in 1..3 |-> a[i] * b[i]]
VMin(a, b) == [i \in 1..3 |-> IF a[i] < b[i] THEN a[i] ELSE b[i]]

is_any_lt(a, b) == \E i \in 1..3 : a[i] < b[i]
is_any_gt(a, b) == \E i \in 1..3 : a[i] > b[i]
\* a divisibility test that finds every vector divisible
is_any_div_never(a, b) == FALSE

is_any_div(a, b) == \E i \in 1..3 : a[i] % b[i] # 0

\* the position of 3D index i in a structure of dimensions dim (0-based)
linear_index(i, dim) == i[1] + i[2] * dim[1] + i[3] * dim[1] * dim[2]

multiply_elements(v) == v[1] * v[2] * v[3]

\* ------------------------------------------------------------------------
\* lib/formats.rs
\* ------------------------------------------------------------------------

\* MonoFormat::from_hashmap: microblock (1,1,1), microblock size count * size
MonoFormat(count, size) ==
    [microblock_dimensions |-> <<1, 1, 1>>, microblock_size |-> count * size,
     family |-> "mono", count |-> count, size |-> size]

\* Format::to_json with FormatFamily::to_json
FormatToJson(format) ==
    [microblockSize |-> format.microblock_size,
     microblockDimensions |-> format.microblock_dimensions,
     family |-> format.family, count |-> format.count, size |-> format.size]

\* Format::from_json: [kind |-> "ok", format] or [kind |-> "err", err]
FormatFromJson(j) ==
    IF j.family = "mono"
    THEN [kind |-> "ok", format |-> MonoFormat(j.count, j.size)]
    ELSE [kind |-> "err", err |-> "UnsupportedFormatFamily"]

count_microblocks(format, amount) == format.microblock_size * amount

count_space(format, dimensions) ==
    count_microblocks(format,
        multiply_elements(DivToU32(dimensions, format.microblock_dimensions)))

\* ------------------------------------------------------------------------
\* compression.rs: the LZ4S codec
\* ------------------------------------------------------------------------

\* A u32 is kept as two 16-bit halves <<hi, lo>>, so that the wrapping
\* arithmetic of hash_u32 stays inside TLC's integers.
Half == Pow2(16)

RECURSIVE XorBits(_, _, _)
XorBits(a, b, n) ==
    IF n = 0 THEN 0
    ELSE ((a + b) % 2) + 2 * XorBits(a \div 2, b \div 2, n - 1)

Xor32(x, y) == <<XorBits(x[1], y[1], 16), XorBits(x[2], y[2], 16)>>

Add32(x, y) ==
    LET lo == x[2] + y[2]
    IN  <<(x[1] + y[1] + lo \div Half) % Half, lo % Half>>

\* x << k, 0 < k < 16
Shl32(x, k) ==
    LET lo == x[2] * Pow2(k)
    IN  <<(x[1] * Pow2(k) + lo \div Half) % Half, lo % Half>>

\* x >> k, 16 <= k < 32
Shr32(x, k) == <<0, x[1] \div Pow2(k - 16)>>

\* read_u32: little-endian u32 at 0-based index i of src
read_u32(src, i) ==
    <<src[i + 3] + 256 * src[i + 4], src[i + 1] + 256 * src[i + 2]>>

\* the six mixing steps of hash_u32
HashStep1(x) == Add32(Add32(x, <<32469, 23830>>), Shl32(x, 12))
HashStep2(x) == Xor32(Xor32(x, <<51041, 49724>>), Shr32(x, 19))
HashStep3(x) == Add32(Add32(x, <<5718, 26545>>), Shl32(x, 5))
HashStep4(x) == Xor32(Add32(x, <<54178, 25708>>), Shl32(x, 9))
HashStep5(x) == Add32(Add32(x, <<64880, 18117>>), Shl32(x, 3))
HashStep6(x) == Xor32(Xor32(x, <<46426, 20233>>), Shr32(x, 16))

hash_u32(w) == HashStep6(HashStep5(HashStep4(HashStep3(HashStep2(HashStep1(w))))))

\* hash16 = ((hash32 >> 16) ^ hash32) & 0xffff
hash16(w) == LET h == hash_u32(w) IN XorBits(h[1], h[2], 16)

\* the extra length bytes written after a token when a count is >= 15
RECURSIVE LengthBytes(_)
LengthBytes(remaining) ==
    IF remaining >= 255 THEN <<255>> \o LengthBytes(remaining - 255)
    ELSE <<remaining>>

\* extra length bytes only for counts above 15
ExtraLength_above(count) == IF count > 15 THEN LengthBytes(count - 15) ELSE <<>>

ExtraLength(count) == IF count >= 15 THEN LengthBytes(count - 15) ELSE <<>>

Min(a, b) == IF a < b THEN a ELSE b

\* the number of steps of `while src_index < src.len() && src[src_index] == src[match_index]`:
\* the first k at which the loop condition is false
MatchLength(src, src_index, match_index) ==
    LET stops == { k \in 0..(Len(src) - src_index) :
                     \/ k = Len(src) - src_index
                     \/ src[src_index + k + 1] # src[match_index + k + 1] }
    IN  CHOOSE k \in stops : \A m \in stops : k <= m

\* a sequence whose offset counts from the byte after the match
Lz4Sequence_offset_past_start(src, literal_start, literal_count, match_offset, match_length) ==
    <<Min(literal_count, 15) * 16 + Min(match_length, 15)>>
    \o ExtraLength(literal_count)
    \o SubSeq(src, literal_start + 1, literal_start + literal_count)
    \o <<(match_offset + match_length) % 256,
         ((match_offset + match_length) \div 256) % 256>>
    \o ExtraLength(match_length)

\* one sequence: token, extra literal length, literals, offset, extra match length
Lz4Sequence(src, literal_start, literal_count, match_offset, match_length) ==
    <<Min(literal_count, 15) * 16 + Min(match_length, 15)>>
    \o ExtraLength(literal_count)
    \o SubSeq(src, literal_start + 1, literal_start + literal_count)
    \o <<match_offset % 256, (match_offset \div 256) % 256>>
    \o ExtraLength(match_length)

\* the trailing literals of compress_lz4s: token, literals, offset 1 and,
\* if there were literals, the end token
Lz4Tail(src, literal_start) ==
    LET literal_count == Len(src) - literal_start
    IN  <<Min(literal_count, 15) * 16>>
        \o ExtraLength(literal_count)
        \o SubSeq(src, literal_start + 1, Len(src))
        \o <<1, 0>>
        \o (IF literal_count > 0 THEN <<0>> ELSE <<>>)

RECURSIVE Lz4Loop(_, _, _, _, _)
\* the main loop of compress_lz4s; hash_table is the function of its
\* non-zero entries
Lz4Loop(src, src_index, literal_start, hash_table, dest) ==
    IF ~(src_index + 4 < Len(src)) THEN dest \o Lz4Tail(src, literal_start)
    ELSE
        LET data         == read_u32(src, src_index)
            h            == hash16(data)
            match_index  == (IF h \in DOMAIN hash_table THEN hash_table[h] ELSE 0) - 1
            table2       == [k \in DOMAIN hash_table \cup {h} |->
                                IF k = h THEN src_index + 1 ELSE hash_table[k]]
            match_found  == match_index >= 0
            match_offset == src_index - match_index
            near_enough  == match_offset < 65536
            correct      == match_found /\ read_u32(src, match_index) = data
        IN  IF ~match_found \/ ~correct \/ ~near_enough
            THEN Lz4Loop(src, src_index + 1, literal_start, table2, dest)
            ELSE
                LET match_length == MatchLength(src, src_index, match_index)
                IN  Lz4Loop(src, src_index + match_length, src_index + match_length,
                            table2,
                            dest \o Lz4Sequence(src, literal_start,
                                                src_index - literal_start,
                                                match_offset, match_length))

compress_lz4s(src) == Lz4Loop(src, 0, 0, <<>>, <<>>)

\* Reading a run-length count of decompress_lz4s at 0-based index i, when the
\* token nibble is 15: [ok, count, next]; ok is FALSE when an index leaves src.
RECURSIVE ReadLength(_, _, _)
ReadLength(src, i, count) ==
    IF i >= Len(src) THEN [ok |-> FALSE, count |-> count, next |-> i]
    ELSE IF src[i + 1] = 255
         THEN IF i + 1 >= Len(src) THEN [ok |-> FALSE, count |-> count, next |-> i]
              ELSE ReadLength(src, i + 1, count + src[i + 2])
         ELSE [ok |-> TRUE, count |-> count, next |-> i + 1]

ReadCount(src, i, nibble) ==
    IF nibble = 15
    THEN IF i >= Len(src) THEN [ok |-> FALSE, count |-> 15, next |-> i]
         ELSE ReadLength(src, i, 15 + src[i + 1])
    ELSE [ok |-> TRUE, count |-> nibble, next |-> i]

\* `for _ in 0..match_length { dest.push(dest[match_index]); match_index += 1 }`,
\* for match_index < dest.len(): the i-th byte pushed is the byte i places
\* after match_index, which past the end of dest is a byte pushed before, so
\* the bytes from match_index to the end of dest repeat
CopyMatch(dest, match_index, match_length) ==
    dest \o [i \in 1..match_length |->
                dest[match_index + ((i - 1) % (Len(dest) - match_index)) + 1]]

RECURSIVE Lz4Decode(_, _, _)
\* the loop of decompress_lz4s: [ok |-> TRUE, data] or, when an index leaves
\* its buffer (the program panics), [ok |-> FALSE, data]
Lz4Decode(src, src_index, dest) ==
    IF ~(src_index < Len(src)) THEN [ok |-> TRUE, data |-> dest]
    ELSE
        LET token == src[src_index + 1] IN
        IF token = 0 THEN [ok |-> TRUE, data |-> dest]
        ELSE
            LET lit == ReadCount(src, src_index + 1, token \div 16) IN
            IF ~lit.ok \/ lit.next + lit.count + 2 > Len(src)
            THEN [ok |-> FALSE, data |-> dest]
            ELSE
                LET dest2  == dest \o SubSeq(src, lit.next + 1, lit.next + lit.count)
                    at     == lit.next + lit.count
                    offset == src[at + 1] + 256 * src[at + 2]
                    mat    == ReadCount(src, at + 2, token % 16)
                    match_index == Len(dest2) - offset
                IN  IF ~mat.ok \/ match_index < 0
                       \/ (mat.count > 0 /\ offset = 0)
                    THEN [ok |-> FALSE, data |-> dest2]
                    ELSE Lz4Decode(src, mat.next,
                                   CopyMatch(dest2, match_index, mat.count))

decompress_lz4s(src, size) == Lz4Decode(src, 0, <<>>)

RECURSIVE Lz4Walk(_, _, _, _)
\* The sequences decompress_lz4s meets in src, in order, without the copying:
\* for each, the offset and match length it reads and the number of bytes it
\* has produced when it computes `dest.len() - offset`; and how its loop
\* ends: on the `break` of a zero token, on `src_index < src.len()` being
\* false, or on an index past the end of src.
Lz4Walk(src, src_index, produced, seqs) ==
    IF ~(src_index < Len(src)) THEN [stop |-> "end of input", seqs |-> seqs]
    ELSE
        LET token == src[src_index + 1] IN
        IF token = 0 THEN [stop |-> "zero token", seqs |-> seqs]
        ELSE
            LET lit == ReadCount(src, src_index + 1, token \div 16) IN
            IF ~lit.ok \/ lit.next + lit.count + 2 > Len(src)
            THEN [stop |-> "past input", seqs |-> seqs]
            ELSE
                LET at     == lit.next + lit.count
                    offset == src[at + 1] + 256 * src[at + 2]
                    mat    == ReadCount(src, at + 2, token % 16)
                IN  IF ~mat.ok THEN [stop |-> "past input", seqs |-> seqs]
                    ELSE Lz4Walk(src, mat.next, produced + lit.count + mat.count,
                                 Append(seqs, [offset       |-> offset,
                                               match_length |-> mat.count,
                                               produced     |-> produced + lit.count]))

\* ------------------------------------------------------------------------
\* lib/compressions/mod.rs
\* ------------------------------------------------------------------------

CompressionTypes == {"raw", "lz4s"}

\* CompressionType::compress
Compress(encoding, source) ==
    IF encoding = "lz4s" THEN compress_lz4s(source) ELSE source

\* a decompress that hands the stored bytes back as they are
Decompress_skipped(encoding, source, size) == [ok |-> TRUE, data |-> source]

\* CompressionType::decompress
Decompress(encoding, source, size) ==
    IF encoding = "lz4s" THEN decompress_lz4s(source, size)
    ELSE [ok |-> TRUE, data |-> source]

\* ------------------------------------------------------------------------
\* lib/block.rs
\* ------------------------------------------------------------------------

\* a byte of a buffer that `set_len` exposed and nothing has written yet
Uninit == 0 - 1

\* Block::new
NewBlock(index, dimensions, format, data) ==
    [index |-> index, dimensions |-> dimensions, placements |-> <<>>,
     format |-> format, data |-> data, data_url |-> None, encoding |-> None]

\* a placement that keeps the 0-based index in the shared vector of blocks
NewPlacement_vec_index(position, block) == [position |-> position, block |-> block - 1]

\* a placement that loses the position of its packet
NewPlacement_at_origin(position, block) == [position |-> <<0, 0, 0>>, block |-> block]

\* Placement::new
NewPlacement(position, block) == [position |-> position, block |-> block]

\* the microblock coordinates visited by `for x .. for y .. for z ..`, in order
LoopCoords(range) ==
    [n \in 1..(range[1] * range[2] * range[3]) |->
        << (n - 1) \div (range[2] * range[3]),
           ((n - 1) \div range[3]) % range[2],
           (n - 1) % range[3] >>]

RECURSIVE CopyLoop(_, _, _, _, _)
\* The copy loops of set_data_in_range and get_data_in_range: for each pair
\* <<dest microblock, src microblock>> of moves, in order, copy microblock_size
\* bytes.  [ok |-> FALSE] when an index leaves a buffer (the program panics).
CopyLoop(dest, src, moves, n, microblock_size) ==
    IF n > Len(moves) THEN [ok |-> TRUE, data |-> dest]
    ELSE
        LET d0 == moves[n][1] * microblock_size
            s0 == moves[n][2] * microblock_size
        IN  IF d0 + microblock_size > Len(dest) \/ s0 + microblock_size > Len(src)
            THEN [ok |-> FALSE, data |-> dest]
            ELSE CopyLoop(
                    [j \in 1..Len(dest) |->
                        IF j - 1 >= d0 /\ j - 1 < d0 + microblock_size
                        THEN src[s0 + (j - 1 - d0) + 1] ELSE dest[j]],
                    src, moves, n + 1, microblock_size)

\* (2^32 - k) % m, the remainder of a u32 difference that wrapped around
WrappedRem(k, m) == ((Pow2(30) % m) * 4 + (m - (k % m))) % m

\* Block::get_data_in_range from the point where `end - start` has wrapped
\* around in some component (a build without overflow checks): the extent is
\* an unsigned vector, so the StartGreaterThanEnd test is false; the bounds
\* and alignment tests follow; a call that passes them goes on with the
\* wrapped extent ([kind |-> "wrapped"]: a capacity or index panic, or a block
\* of the wrapped dimensions).
get_data_in_range_wrapped(self, start, end, format) ==
    LET md == format.microblock_dimensions IN
    IF self.data = None THEN [kind |-> "err", err |-> "NoData"]
    ELSE IF is_any_gt(end, self.dimensions) THEN [kind |-> "err", err |-> "EndOutOfBounds"]
    ELSE IF is_any_div(start, md) THEN [kind |-> "err", err |-> "BlockInvalidPosition"]
    ELSE IF \E i \in 1..3 :
               IF start[i] > end[i] THEN WrappedRem(start[i] - end[i], md[i]) # 0
               ELSE (end[i] - start[i]) % md[i] # 0
         THEN [kind |-> "err", err |-> "BlockInvalidSize"]
    ELSE [kind |-> "wrapped"]

\* Block::get_data_in_range: [kind |-> "ok", block], [kind |-> "err", err]
\* or [kind |-> "panic"].  `end - start` is computed first, on u32: where a
\* component of start is greater the subtraction panics in a build with
\* overflow checks and wraps around in a build without them.
get_data_in_range_in(self, start, end, format, overflow_checks) ==
    LET extent == VSub(end, start)
        md     == format.microblock_dimensions
    IN
    IF is_any_gt(start, end) THEN
        IF overflow_checks THEN [kind |-> "panic"]
        ELSE get_data_in_range_wrapped(self, start, end, format)
    ELSE IF self.data = None THEN [kind |-> "err", err |-> "NoData"]
    ELSE IF is_any_lt(extent, <<0, 0, 0>>) THEN [kind |-> "err", err |-> "StartGreaterThanEnd"]
    ELSE IF is_any_lt(start, <<0, 0, 0>>) THEN [kind |-> "err", err |-> "StartOutOfBounds"]
    ELSE IF is_any_gt(end, self.dimensions) THEN [kind |-> "err", err |-> "EndOutOfBounds"]
    ELSE IF is_any_div(start, md) THEN [kind |-> "err", err |-> "BlockInvalidPosition"]
    ELSE IF is_any_div(extent, md) THEN [kind |-> "err", err |-> "BlockInvalidSize"]
    ELSE
        LET microblock_start           == DivToU32(start, md)
            microblock_amount_in_range == DivToU32(extent, md)
            microblock_amount_in_block == DivToU32(self.dimensions, md)
            dest_vec_size              == count_space(format, extent)
            coords == LoopCoords(microblock_amount_in_range)
            moves  == [n \in 1..Len(coords) |->
                        << linear_index(coords[n], microblock_amount_in_range),
                           linear_index(VAdd(coords[n], microblock_start),
                                        microblock_amount_in_block) >>]
            copied == CopyLoop([j \in 1..dest_vec_size |-> Uninit], Unwrap(self.data),
                               moves, 1, format.microblock_size)
        IN  IF copied.ok
            THEN [kind |-> "ok",
                  block |-> NewBlock(0, extent, self.format, Some(copied.data))]
            ELSE [kind |-> "panic"]

\* Block::get_data_in_range in a build with overflow checks
get_data_in_range(self, start, end, format) ==
    get_data_in_range_in(self, start, end, format, TRUE)

\* Block::set_data_in_range: [kind |-> "ok", data |-> the new self.data],
\* [kind |-> "err", err] or [kind |-> "panic"]
set_data_in_range(self, offset, block, format) ==
    LET start  == offset
        end    == VAdd(offset, block.dimensions)
        extent == VSub(end, start)
        md     == format.microblock_dimensions
    IN
    IF self.data = None THEN [kind |-> "err", err |-> "NoData"]
    ELSE IF block.data = None THEN [kind |-> "err", err |-> "NoData"]
    ELSE IF self.format # block.format THEN [kind |-> "err", err |-> "FormatMismatch"]
    ELSE IF is_any_lt(extent, <<0, 0, 0>>) THEN [kind |-> "err", err |-> "StartGreaterThanEnd"]
    ELSE IF is_any_lt(start, <<0, 0, 0>>) THEN [kind |-> "err", err |-> "StartOutOfBounds"]
    ELSE IF is_any_gt(end, self.dimensions) THEN [kind |-> "err", err |-> "EndOutOfBounds"]
    ELSE IF is_any_div(start, md) THEN [kind |-> "err", err |-> "BlockInvalidPosition"]
    ELSE IF is_any_div(extent, md) THEN [kind |-> "err", err |-> "BlockInvalidSize"]
    ELSE
        LET microblock_start           == DivToU32(start, md)
            microblock_amount_in_range == DivToU32(extent, md)
            microblock_amount_in_block == DivToU32(self.dimensions, md)
            src_original_len           == count_space(format, block.dimensions)
            src_bytes == IF block.encoding = None
                         THEN [ok |-> TRUE, data |-> Unwrap(block.data)]
                         ELSE Decompress(Unwrap(block.encoding), Unwrap(block.data),
                                         src_original_len)
            coords == LoopCoords(microblock_amount_in_range)
            moves  == [n \in 1..Len(coords) |->
                        << linear_index(VAdd(coords[n], microblock_start),
                                        microblock_amount_in_block),
                           linear_index(coords[n], microblock_amount_in_range) >>]
            copied == CopyLoop(Unwrap(self.data), src_bytes.data, moves, 1,
                               format.microblock_size)
        IN  IF src_bytes.ok /\ copied.ok
            THEN [kind |-> "ok", data |-> Some(copied.data)]
            ELSE [kind |-> "panic"]

\* a set_data_in_range that records the placement of the source before its
\* checks
BlockAfterSet_placed_first(self, offset, block, format) ==
    Some([self EXCEPT !.placements = Append(@, [position |-> offset,
                                                block |-> block.index])])

\* *self when set_data_in_range(offset, block, format) has returned: every
\* `return Err` precedes `self.data.as_mut()`, the loop writes bytes of
\* self.data alone; None when the call has panicked
BlockAfterSet(self, offset, block, format) ==
    LET r == set_data_in_range(self, offset, block, format) IN
    IF r.kind = "err" THEN Some(self)
    ELSE IF r.kind = "ok" THEN Some([self EXCEPT !.data = r.data])
    ELSE None

\* a comparison that takes every stored block for equal
is_equal_data_any(self, vec) == TRUE

\* Block::is_equal_data
is_equal_data(self, vec) ==
    IF self.data = None THEN FALSE
    ELSE IF Len(Unwrap(self.data)) # Len(vec) THEN FALSE
    ELSE \A i \in 1..Len(vec) : Unwrap(self.data)[i] = vec[i]

\* ------------------------------------------------------------------------
\* raw_to_bvp/parallel.rs: the state of the pipeline
\* ------------------------------------------------------------------------

Workers == 1..NumWorkers

\* The parameter sets the pipeline is run on: volume dimensions, block
\* dimensions, the mono format (count, size) and the compression.  The bytes
\* of the raw volume are drawn from 0..(MaxByte - narrow).
PipelineConfigs ==
    { [dimensions |-> <<2, 1, 1>>, block_dimensions |-> <<1, 1, 1>>,
       count |-> 1, size |-> 1, compression |-> "raw", narrow |-> 0],
      [dimensions |-> <<3, 1, 1>>, block_dimensions |-> <<1, 1, 1>>,
       count |-> 1, size |-> 1, compression |-> "raw", narrow |-> 0],
      [dimensions |-> <<3, 1, 1>>, block_dimensions |-> <<2, 1, 1>>,
       count |-> 1, size |-> 1, compression |-> "lz4s", narrow |-> 0],
      [dimensions |-> <<2, 2, 1>>, block_dimensions |-> <<1, 2, 1>>,
       count |-> 1, size |-> 1, compression |-> "raw", narrow |-> 1],
      [dimensions |-> <<1, 1, 2>>, block_dimensions |-> <<1, 1, 1>>,
       count |-> 2, size |-> 1, compression |-> "lz4s", narrow |-> 1],
      [dimensions |-> <<6, 1, 1>>, block_dimensions |-> <<6, 1, 1>>,
       count |-> 1, size |-> 1, compression |-> "lz4s", narrow |-> 1] }

VARIABLES
    parameters,      \* Parameters: dimensions, block_dimensions, input_format, compression
    bvp_file,        \* BVPFile: formats, blocks, modalities, block_map
    token,           \* AtomicBoolToken: the cancellation flag
    stage1,          \* stage 1 thread: pc, block_count and the number of packets sent
    chan1,           \* stage_one_result_channel: packets in flight
    worker,          \* stage 2 threads: pc and the locals prepared_work (work),
                     \* block, block_data_hash (hash) and block_id
    locks,           \* holder (0 = free) of each Mutex
    poisoned,        \* the Mutexes a panicking holder has poisoned
    block_map,       \* bvp_shared_block_map: hash -> block id
    blocks_vec,      \* bvp_shared_block_vec
    placements_vec,  \* bvp_shared_parent_placements_vec
    chan2,           \* stage_two_result_channel: files in flight
    stage3,          \* stage 3 thread: pc
    zip,             \* the entries of the ZIP archive, in the order written
    main,            \* main thread: pc and the result of raw_to_bvp_parallel
    call,            \* a call of a library function: the function and its arguments
    ret              \* what the call returned (None while it has not run)

vars == <<parameters, bvp_file, token, stage1, chan1, worker, locks, poisoned,
          block_map, blocks_vec, placements_vec, chan2, stage3, zip, main,
          call, ret>>

\* xxh3::xxh3_64, abstracted to HashMod buckets
xxh3_64(data) ==
    LET RECURSIVE Sum(_)
        Sum(n) == IF n = 0 THEN 0 ELSE data[n] + Sum(n - 1)
    IN  Sum(Len(data)) % HashMod

\* format!("blocks/block_{}.raw", block_id)
BlockUrl(block_id) == <<"blocks/block_", block_id, ".raw">>

ManifestName == <<"manifest.json">>

\* File::new
NewFile(name, data, mime) == [name |-> name, data |-> data, mime |-> mime]

RootBlockIndex == 0

RootBlock == bvp_file.blocks[RootBlockIndex + 1]

Format0 == bvp_file.formats[1]

\* block_count of spawn_stage_1
BlockCount(dimensions, block_dimensions) == DivCeil(dimensions, block_dimensions)

\* the n-th cell (n from 1) of iproduct!(0..x, 0..y, 0..z), and of the loop
\* nest `for x .. for y .. for z ..`, over the counts c
Cell(c, n) ==
    << (n - 1) \div (c[2] * c[3]), ((n - 1) \div c[3]) % c[2], (n - 1) % c[3] >>

\* block_start and block_end of a cell
CellRange(dimensions, block_dimensions, cell) ==
    LET block_start == VMul(block_dimensions, cell)
        block_end   == VMin(VAdd(block_start, block_dimensions), dimensions)
    IN  [block_start |-> block_start, block_end |-> block_end]

\* the number of cells stage 1 iterates over
NumCells == multiply_elements(stage1.block_count)

\* the n-th work packet of stage 1 (n from 1): StageOnePipelineResult
WorkPacket(n) ==
    LET range == CellRange(parameters.dimensions, parameters.block_dimensions,
                           Cell(stage1.block_count, n))
    IN  [block_start |-> range.block_start, block_end |-> range.block_end,
         format_index |-> 0, parent_block_index |-> 0]

\* the sub-block a worker cuts for a packet
CutBlock(work) ==
    get_data_in_range(bvp_file.blocks[work.parent_block_index + 1],
                      work.block_start, work.block_end,
                      bvp_file.formats[work.format_index + 1])

Ended(pc) == pc \in {"done", "failed", "panicked"}

AllWorkersEnded == \A w \in Workers : Ended(worker[w].pc)

NoWork == [block_start |-> <<0, 0, 0>>, block_end |-> <<0, 0, 0>>,
           format_index |-> 0, parent_block_index |-> 0]

\* the locals of a worker between two iterations of its loop
Idle == [pc |-> "recv", work |-> NoWork, block |-> NewBlock(0, <<0, 0, 0>>, None, None),
         hash |-> 0, block_id |-> 0]

Init ==
    /\ \E c \in PipelineConfigs :
          LET format == MonoFormat(c.count, c.size) IN
          /\ parameters = [dimensions |-> c.dimensions,
                           block_dimensions |-> c.block_dimensions,
                           input_format |-> format,
                           compression |-> c.compression]
          /\ \E raw \in [1..count_space(format, c.dimensions) -> 0..(MaxByte - c.narrow)] :
                bvp_file = [formats |-> <<format>>,
                            blocks |-> <<NewBlock(0, c.dimensions, Some(0), Some(raw))>>,
                            modalities |-> <<>>,
                            block_map |-> <<>>]
    /\ token = FALSE
    /\ stage1 = [pc |-> "run",
                 block_count |-> BlockCount(parameters.dimensions,
                                            parameters.block_dimensions),
                 sent |-> 0]
    /\ chan1 = <<>>
    /\ worker = [w \in Workers |-> Idle]
    /\ locks = [m \in {"map", "vec", "placements"} |-> 0]
    /\ poisoned = {}
    /\ block_map = <<>>
    /\ blocks_vec = <<>>
    /\ placements_vec = <<>>
    /\ chan2 = <<>>
    /\ stage3 = [pc |-> "run"]
    /\ zip = <<>>
    /\ main = [pc |-> "scope", result |-> "running"]
    /\ call = None
    /\ ret = None

\* ------------------------------------------------------------------------
\* The cancellation token (lib/atomic_token.rs)
\* ------------------------------------------------------------------------

\* AtomicBoolToken::set_true, by whoever holds the token.  raw_to_bvp_parallel
\* creates no token and no stage reads one.
set_true ==
    /\ token = FALSE
    /\ main.pc = "scope"
    /\ token' = TRUE
    /\ UNCHANGED <<call, ret>>
    /\ UNCHANGED <<parameters, bvp_file, stage1, chan1, worker, locks, poisoned,
                   block_map, blocks_vec, placements_vec, chan2, stage3, zip, main>>

\* ------------------------------------------------------------------------
\* Stage 1 (spawn_stage_1)
\* ------------------------------------------------------------------------

\* one iteration of the loop: send the next work packet; the send panics
\* (`expect`) when every receiver has been dropped
Stage1Send ==
    /\ stage1.pc = "run"
    /\ stage1.sent < NumCells
    /\ IF AllWorkersEnded
       THEN /\ stage1' = [stage1 EXCEPT !.pc = "panicked"]
            /\ chan1' = chan1
       ELSE /\ stage1' = [stage1 EXCEPT !.sent = @ + 1]
            /\ chan1' = Append(chan1, WorkPacket(stage1.sent + 1))
    /\ UNCHANGED <<call, ret>>
    /\ UNCHANGED <<parameters, bvp_file, token, worker, locks, poisoned, block_map,
                   blocks_vec, placements_vec, chan2, stage3, zip, main>>

\* the iterator is exhausted: the thread ends and drops its Sender
Stage1Finish ==
    /\ stage1.pc = "run"
    /\ stage1.sent = NumCells
    /\ stage1' = [stage1 EXCEPT !.pc = "done"]
    /\ UNCHANGED <<call, ret>>
    /\ UNCHANGED <<parameters, bvp_file, token, chan1, worker, locks, poisoned,
                   block_map, blocks_vec, placements_vec, chan2, stage3, zip, main>>

\* ------------------------------------------------------------------------
\* Stage 2 (run_stage_2_worker)
\* ------------------------------------------------------------------------

\* recv() returns a packet; the worker cuts the sub-block (get_data_in_range)
\* and hashes it.  An error of get_data_in_range ends the worker with Err.
WorkerRecv(w) ==
    /\ worker[w].pc = "recv"
    /\ chan1 # <<>>
    /\ LET work == Head(chan1)
           cut  == CutBlock(work)
       IN  worker' = [worker EXCEPT ![w] =
                        CASE cut.kind = "ok" ->
                                [pc |-> "lock", work |-> work, block |-> cut.block,
                                 hash |-> xxh3_64(Unwrap(cut.block.data)),
                                 block_id |-> 0]
                          [] cut.kind = "err" -> [Idle EXCEPT !.pc = "failed"]
                          [] OTHER -> [Idle EXCEPT !.pc = "panicked"]]
    /\ chan1' = Tail(chan1)
    /\ UNCHANGED <<call, ret>>
    /\ UNCHANGED <<parameters, bvp_file, token, stage1, locks, poisoned, block_map,
                   blocks_vec, placements_vec, chan2, stage3, zip, main>>

\* recv() fails: the channel is empty and the sender has been dropped
WorkerExit(w) ==
    /\ worker[w].pc = "recv"
    /\ chan1 = <<>>
    /\ stage1.pc # "run"
    /\ worker' = [worker EXCEPT ![w] = [Idle EXCEPT !.pc = "done"]]
    /\ UNCHANGED <<call, ret>>
    /\ UNCHANGED <<parameters, bvp_file, token, stage1, chan1, locks, poisoned,
                   block_map, blocks_vec, placements_vec, chan2, stage3, zip, main>>

\* bvp_shared_block_map.lock().expect(..) and bvp_shared_block_vec.lock()
\* .expect(..): the start of the locked segment.  The vec is only ever locked
\* by the holder of the map.  A poisoned Mutex panics the worker.
WorkerLock(w) ==
    /\ worker[w].pc = "lock"
    /\ locks["map"] = 0
    /\ locks["vec"] = 0
    /\ IF "map" \in poisoned \/ "vec" \in poisoned
       THEN /\ worker' = [worker EXCEPT ![w] = [Idle EXCEPT !.pc = "panicked"]]
            /\ locks' = locks
       ELSE /\ worker' = [worker EXCEPT ![w].pc = "dedupe"]
            /\ locks' = [locks EXCEPT !["map"] = w, !["vec"] = w]
    /\ UNCHANGED <<call, ret>>
    /\ UNCHANGED <<parameters, bvp_file, token, stage1, chan1, poisoned, block_map,
                   blocks_vec, placements_vec, chan2, stage3, zip, main>>

\* locked_blocks_vec.get(id): the element at 0-based index id, if any
VecGet(vec, id) == IF id < Len(vec) THEN Some(vec[id + 1]) ELSE None

\* an id taken from the length alone, as the sequential encoder does
NextBlockId_len(vec) == Len(vec)

\* block_id = locked_blocks_vec.len() + 1
NextBlockId(vec) == Len(vec) + 1

\* a guard that outlives the locked segment
DropGuard_kept(w) == w

\* the holder of a guard of the map and of the vec after drop(..)
DropGuard(w) == 0

\* the holder of the placements guard at the end of its block
DropPlacementsGuard(w) == 0

\* The locked segment.  With the hash in the map: look the block up, panic if
\* it is not in the vector, and on equal data push the placement and
\* `continue`.  Otherwise register the new block and drop the guards.
WorkerDedupe(w) ==
    /\ worker[w].pc = "dedupe"
    /\ locks["placements"] = 0
    /\ LET work == worker[w].work
           block == worker[w].block
           block_data == Unwrap(block.data)
           block_data_hash == worker[w].hash
           hit == block_data_hash \in DOMAIN block_map
           same_hash_block_id == block_map[block_data_hash]
           found == VecGet(blocks_vec, same_hash_block_id)
           block_id == NextBlockId(blocks_vec)
           new_block == [NewBlock(block_id, block.dimensions,
                                  Some(work.format_index), None)
                           EXCEPT !.encoding = Some(parameters.compression),
                                  !.format = block.format,
                                  !.data_url = Some(BlockUrl(block_id))]
       IN  IF hit /\ found = None
           THEN \* expect("Block with given index did not exist in vector.")
                /\ worker' = [worker EXCEPT ![w] = [Idle EXCEPT !.pc = "panicked"]]
                /\ locks' = [locks EXCEPT !["map"] = 0, !["vec"] = 0]
                /\ poisoned' = poisoned \cup {"map", "vec"}
                /\ UNCHANGED <<block_map, blocks_vec, placements_vec>>
           ELSE IF hit /\ is_equal_data(Unwrap(found), block_data)
           THEN /\ IF "placements" \in poisoned
                   THEN /\ worker' = [worker EXCEPT ![w] = [Idle EXCEPT !.pc = "panicked"]]
                        /\ poisoned' = poisoned \cup {"map", "vec"}
                        /\ placements_vec' = placements_vec
                   ELSE /\ worker' = [worker EXCEPT ![w] = Idle]
                        /\ poisoned' = poisoned
                        /\ placements_vec' = Append(placements_vec,
                              NewPlacement(work.block_start, same_hash_block_id))
                /\ locks' = [locks EXCEPT !["map"] = 0, !["vec"] = 0]
                /\ UNCHANGED <<block_map, blocks_vec>>
           ELSE /\ block_map' = [h \in DOMAIN block_map \cup {block_data_hash} |->
                                    IF h = block_data_hash THEN block_id
                                    ELSE block_map[h]]
                /\ blocks_vec' = Append(blocks_vec, new_block)
                /\ worker' = [worker EXCEPT ![w].pc = "compress",
                                            ![w].block_id = block_id]
                /\ locks' = [locks EXCEPT !["map"] = DropGuard(w),
                                          !["vec"] = DropGuard(w)]
                /\ UNCHANGED <<poisoned, placements_vec>>
    /\ UNCHANGED <<call, ret>>
    /\ UNCHANGED <<parameters, bvp_file, token, stage1, chan1, chan2, stage3, zip, main>>

\* encoding.compress(block_data), then the placement is pushed under the
\* placements lock
WorkerCompress(w) ==
    /\ worker[w].pc = "compress"
    /\ locks["placements"] = 0
    /\ IF "placements" \in poisoned
       THEN /\ worker' = [worker EXCEPT ![w] = [Idle EXCEPT !.pc = "panicked"]]
            /\ UNCHANGED <<placements_vec, locks>>
       ELSE /\ worker' = [worker EXCEPT ![w].pc = "send"]
            /\ placements_vec' = Append(placements_vec,
                  NewPlacement(worker[w].work.block_start, worker[w].block_id))
            /\ locks' = [locks EXCEPT !["placements"] = DropPlacementsGuard(w)]
    /\ UNCHANGED <<call, ret>>
    /\ UNCHANGED <<parameters, bvp_file, token, stage1, chan1, poisoned, block_map,
                   blocks_vec, chan2, stage3, zip, main>>

\* stage_two_result_queue_tx.send(..).expect(..): panics when stage 3 has
\* dropped its receiver
WorkerSend(w) ==
    /\ worker[w].pc = "send"
    /\ IF stage3.pc = "run"
       THEN /\ chan2' = Append(chan2,
                  NewFile(BlockUrl(worker[w].block_id),
                          Compress(parameters.compression,
                                   Unwrap(worker[w].block.data)),
                          None))
            /\ worker' = [worker EXCEPT ![w] = Idle]
       ELSE /\ chan2' = chan2
            /\ worker' = [worker EXCEPT ![w] = [Idle EXCEPT !.pc = "panicked"]]
    /\ UNCHANGED <<call, ret>>
    /\ UNCHANGED <<parameters, bvp_file, token, stage1, chan1, locks, poisoned,
                   block_map, blocks_vec, placements_vec, stage3, zip, main>>

\* ------------------------------------------------------------------------
\* Stage 3 (run_stage_3_worker, StreamingZIPArchiveWriter)
\* ------------------------------------------------------------------------

\* recv() returns a file and append_block_file writes it
Stage3Append ==
    /\ stage3.pc = "run"
    /\ chan2 # <<>>
    /\ chan2' = Tail(chan2)
    /\ zip' = Append(zip, Head(chan2))
    /\ UNCHANGED <<call, ret>>
    /\ UNCHANGED <<parameters, bvp_file, token, stage1, chan1, worker, locks,
                   poisoned, block_map, blocks_vec, placements_vec, stage3, main>>

\* recv() returns a file and append_block_file fails with an I/O error: the
\* thread ends with Err and drops its receiver
Stage3AppendFails ==
    /\ stage3.pc = "run"
    /\ chan2 # <<>>
    /\ chan2' = Tail(chan2)
    /\ stage3' = [stage3 EXCEPT !.pc = "failed"]
    /\ UNCHANGED <<call, ret>>
    /\ UNCHANGED <<parameters, bvp_file, token, stage1, chan1, worker, locks,
                   poisoned, block_map, blocks_vec, placements_vec, zip, main>>

\* recv() fails: the channel is empty and every sender has been dropped
Stage3Exit ==
    /\ stage3.pc = "run"
    /\ chan2 = <<>>
    /\ AllWorkersEnded
    /\ stage3' = [stage3 EXCEPT !.pc = "done"]
    /\ UNCHANGED <<call, ret>>
    /\ UNCHANGED <<parameters, bvp_file, token, stage1, chan1, worker, locks,
                   poisoned, block_map, blocks_vec, placements_vec, chan2, zip, main>>

\* ------------------------------------------------------------------------
\* lib/bvpfile.rs, lib/block.rs, lib/modality.rs: the manifest
\* ------------------------------------------------------------------------

\* Block::to_json: a key that is left out is None
BlockToJson(b) ==
    [dimensions |-> b.dimensions, placements |-> b.placements, format |-> b.format,
     data |-> b.data_url, encoding |-> b.encoding]

\* BVPFile::to_manifest: the JSON document, as a record of its arrays
to_manifest(bvp) ==
    [formats    |-> [i \in 1..Len(bvp.formats) |-> FormatToJson(bvp.formats[i])],
     modalities |-> bvp.modalities,
     blocks     |-> [i \in 1..Len(bvp.blocks) |-> BlockToJson(bvp.blocks[i])]]

RECURSIVE FindByName(_, _, _)
\* `for file in files { if file.name == data_url { .. break } }`
FindByName(files, name, k) ==
    IF k > Len(files) THEN None
    ELSE IF files[k].name = name THEN Some(files[k])
    ELSE FindByName(files, name, k + 1)

\* Block::from_json: [kind |-> "ok", block] or [kind |-> "panic"] (the index
\* o["encoding"] of a missing key)
BlockFromJson(index, j, files) ==
    LET bare == [index |-> index, dimensions |-> j.dimensions,
                 placements |-> j.placements, format |-> j.format,
                 data |-> None, data_url |-> None, encoding |-> None]
    IN
    IF j.data = None THEN [kind |-> "ok", block |-> bare]
    ELSE IF j.encoding = None THEN [kind |-> "panic"]
    ELSE LET file == FindByName(files, Unwrap(j.data), 1)
         IN  IF file = None THEN [kind |-> "ok", block |-> bare]
             ELSE [kind |-> "ok",
                   block |-> [bare EXCEPT !.data_url = j.data,
                                          !.encoding = j.encoding,
                                          !.data = Some(Unwrap(file).data)]]

\* BVPFile::from_manifest: [kind |-> "ok", bvp], [kind |-> "err"] or [kind |-> "panic"]
from_manifest(manifest, files) ==
    LET blocks  == [i \in 1..Len(manifest.blocks) |->
                       BlockFromJson(i - 1, manifest.blocks[i], files)]
        formats == [i \in 1..Len(manifest.formats) |->
                       FormatFromJson(manifest.formats[i])]
    IN
    IF \E i \in 1..Len(blocks) : blocks[i].kind = "panic" THEN [kind |-> "panic"]
    ELSE IF \E i \in 1..Len(formats) : formats[i].kind = "err" THEN [kind |-> "err"]
    ELSE [kind |-> "ok",
          bvp |-> [formats    |-> [i \in 1..Len(formats) |-> formats[i].format],
                   blocks     |-> [i \in 1..Len(blocks) |-> blocks[i].block],
                   modalities |-> manifest.modalities,
                   block_map  |-> <<>>]]

\* ------------------------------------------------------------------------
\* bvp2raw.rs: reassembly
\* ------------------------------------------------------------------------

RECURSIVE FindFormatLoop(_, _)
\* the loop of find_format over its stack of block indices
FindFormatLoop(bvp, stack) ==
    IF stack = <<>> THEN [kind |-> "err", err |-> "No format found"]
    ELSE
        LET block_index == stack[Len(stack)]
            rest        == SubSeq(stack, 1, Len(stack) - 1)
        IN  IF block_index >= Len(bvp.blocks) THEN [kind |-> "panic"]
            ELSE LET block == bvp.blocks[block_index + 1] IN
                 IF block.format # None
                 THEN IF Unwrap(block.format) >= Len(bvp.formats)
                      THEN [kind |-> "panic"]
                      ELSE [kind |-> "ok",
                            format |-> bvp.formats[Unwrap(block.format) + 1]]
                 ELSE FindFormatLoop(bvp,
                        rest \o [i \in 1..Len(block.placements) |->
                                    block.placements[i].block])

find_format(bvp, current_block_index) == FindFormatLoop(bvp, <<current_block_index>>)

RECURSIVE PopulateLoop(_, _, _, _, _)
\* populate_volume, from the k-th placement of the current block on:
\* [kind |-> "ok", dest], [kind |-> "err", err] or [kind |-> "panic"]
PopulateLoop(bvp, current_block_index, dest_block, format, k) ==
    LET placements == bvp.blocks[current_block_index + 1].placements IN
    IF k > Len(placements) THEN [kind |-> "ok", dest |-> dest_block]
    ELSE
        LET placement == placements[k]
            block_index == placement.block
        IN  IF block_index >= Len(bvp.blocks) THEN [kind |-> "panic"]
            ELSE
                LET block == bvp.blocks[block_index + 1]
                    res == IF block.data # None
                           THEN LET r == set_data_in_range(dest_block,
                                            placement.position, block, format)
                                IN  IF r.kind = "ok"
                                    THEN [kind |-> "ok",
                                          dest |-> [dest_block EXCEPT !.data = r.data]]
                                    ELSE r
                           ELSE PopulateLoop(bvp, block_index, dest_block, format, 1)
                IN  IF res.kind = "ok"
                    THEN PopulateLoop(bvp, current_block_index, res.dest, format, k + 1)
                    ELSE res

populate_volume(bvp, current_block_index, dest_block, format) ==
    PopulateLoop(bvp, current_block_index, dest_block, format, 1)

\* The body of the modality loop of main for one modality: the bytes written
\* to the .raw file, [kind |-> "ok", data], or the error pushed to `errors`.
\* The fresh root buffer holds Uninit bytes until a leaf overwrites them.
ReassembleModality(bvp, modality) ==
    LET root_block_index == modality.block
        root_block == bvp.blocks[root_block_index + 1]
        found == find_format(bvp, root_block_index)
    IN
    IF found.kind # "ok" THEN found
    ELSE
        LET root_volume_size == count_space(found.format, root_block.dimensions)
            new_block == [NewBlock(0, root_block.dimensions, root_block.format, None)
                            EXCEPT !.data = Some([j \in 1..root_volume_size |-> Uninit])]
            res == populate_volume(bvp, root_block_index, new_block, found.format)
        IN  IF res.kind = "ok"
            THEN [kind |-> "ok", data |-> Unwrap(res.dest.data)]
            ELSE res

\* get_bvp_state and the first modality of main, on the files of an archive
bvp2raw(files) ==
    LET manifest == FindByName(files, ManifestName, 1) IN
    IF manifest = None THEN [kind |-> "err", err |-> "Missing manifest file"]
    ELSE LET state == from_manifest(Unwrap(manifest).data, files) IN
         IF state.kind # "ok" THEN state
         ELSE ReassembleModality(state.bvp, state.bvp.modalities[1])

\* ------------------------------------------------------------------------
\* The main thread (raw_to_bvp_parallel, finalize_bvp_zip_file)
\* ------------------------------------------------------------------------

AllThreadsEnded == stage1.pc # "run" /\ AllWorkersEnded /\ stage3.pc # "run"

AnyThreadPanicked ==
    \/ stage1.pc = "panicked"
    \/ \E w \in Workers : worker[w].pc = "panicked"

\* the BVPFile after finalize_bvp_zip_file has filled it in
FinalizedBvp ==
    LET blocks == bvp_file.blocks \o blocks_vec IN
    [bvp_file EXCEPT
        !.modalities = Append(@, [block |-> RootBlockIndex]),
        !.block_map  = block_map,
        !.blocks     = [blocks EXCEPT ![RootBlockIndex + 1].placements = placements_vec]]

\* scope(..) returns Err because a thread has panicked:
\* "Scope failed to execute."
MainScopeFailed ==
    /\ main.pc = "scope"
    /\ AllThreadsEnded
    /\ AnyThreadPanicked
    /\ main' = [pc |-> "done", result |-> "ScopeFailed"]
    /\ UNCHANGED <<call, ret>>
    /\ UNCHANGED <<parameters, bvp_file, token, stage1, chan1, worker, locks,
                   poisoned, block_map, blocks_vec, placements_vec, chan2, stage3, zip>>

\* scope(..) returns Ok: finalize_bvp_zip_file builds the manifest and
\* zip_writer.finish writes it as the last entry
MainFinalize ==
    /\ main.pc = "scope"
    /\ AllThreadsEnded
    /\ ~AnyThreadPanicked
    /\ bvp_file' = FinalizedBvp
    /\ zip' = Append(zip, NewFile(ManifestName, to_manifest(FinalizedBvp),
                                  Some("application/json")))
    /\ main' = [pc |-> "done", result |-> "Ok"]
    /\ UNCHANGED <<call, ret>>
    /\ UNCHANGED <<parameters, token, stage1, chan1, worker, locks, poisoned,
                   block_map, blocks_vec, placements_vec, chan2, stage3>>

\* scope(..) returns Ok and zip_writer.finish fails with an I/O error
MainFinishFails ==
    /\ main.pc = "scope"
    /\ AllThreadsEnded
    /\ ~AnyThreadPanicked
    /\ bvp_file' = FinalizedBvp
    /\ main' = [pc |-> "done", result |-> "FinishFailed"]
    /\ UNCHANGED <<call, ret>>
    /\ UNCHANGED <<parameters, token, stage1, chan1, worker, locks, poisoned,
                   block_map, blocks_vec, placements_vec, chan2, stage3, zip>>

Next ==
    \/ Stage1Send
    \/ Stage1Finish
    \/ \E w \in Workers : WorkerRecv(w)
    \/ \E w \in Workers : WorkerExit(w)
    \/ \E w \in Workers : WorkerLock(w)
    \/ \E w \in Workers : WorkerDedupe(w)
    \/ \E w \in Workers : WorkerCompress(w)
    \/ \E w \in Workers : WorkerSend(w)
    \/ Stage3Append
    \/ Stage3Exit
    \/ MainScopeFailed
    \/ MainFinalize

Spec == Init /\ [][Next]_vars

\* the pipeline next to a holder of the cancellation token
NextCancel == Next \/ set_true

\* the pipeline with I/O errors of the archive writer
NextIO == Next \/ Stage3AppendFails \/ MainFinishFails

SpecIO == Init /\ [][NextIO]_vars

SpecCancel == Init /\ [][NextCancel]_vars

TypeOK ==
    /\ token \in BOOLEAN
    /\ stage1.pc \in {"run", "done", "panicked"}
    /\ \A w \in Workers : worker[w].pc \in
          {"recv", "lock", "dedupe", "compress", "send",
           "done", "failed", "panicked"}
    /\ stage3.pc \in {"run", "done", "failed"}
    /\ main.result \in {"running", "Ok", "ScopeFailed", "FinishFailed"}

\* ------------------------------------------------------------------------
\* raw2bvp.rs: the sequential encoder
\* ------------------------------------------------------------------------

RECURSIVE Volume2BlockLoop(_, _, _, _, _, _, _)
\* the loop nest of volume2block from the n-th cell on; bvp_state holds formats,
\* blocks, block_map and files: [kind |-> "ok", state], [kind |-> "err"] or
\* [kind |-> "panic"]
Volume2BlockLoop(parent_block_index, dimensions, block_dimensions, format_index, encoding, bvp_state, n) ==
    LET count == BlockCount(dimensions, block_dimensions) IN
    IF n > multiply_elements(count) THEN [kind |-> "ok", state |-> bvp_state]
    ELSE
        LET range == CellRange(dimensions, block_dimensions, Cell(count, n))
            cut   == get_data_in_range(bvp_state.blocks[parent_block_index + 1],
                                       range.block_start, range.block_end,
                                       bvp_state.formats[format_index + 1])
        IN
        IF cut.kind # "ok" THEN [kind |-> cut.kind]
        ELSE IF cut.block.data = None THEN [kind |-> "err"]
        ELSE
            LET block_data == Unwrap(cut.block.data)
                block_hash == xxh3_64(block_data)
                hit    == block_hash \in DOMAIN bvp_state.block_map
                bi     == bvp_state.block_map[block_hash]
                exists == hit /\ is_equal_data(bvp_state.blocks[bi + 1], block_data)
                block_id  == IF exists THEN bi ELSE Len(bvp_state.blocks)
                new_block == [NewBlock(block_id, cut.block.dimensions,
                                       Some(format_index), None)
                                EXCEPT !.encoding = Some(encoding),
                                       !.format = bvp_state.blocks[parent_block_index + 1].format,
                                       !.data_url = Some(BlockUrl(block_id))]
                scheduled ==
                    IF exists THEN bvp_state
                    ELSE [bvp_state EXCEPT
                            !.block_map = [h \in DOMAIN @ \cup {block_hash} |->
                                              IF h = block_hash THEN block_id ELSE @[h]],
                            !.blocks = Append(@, new_block),
                            !.files  = Append(@, NewFile(BlockUrl(block_id),
                                                         Compress(encoding, block_data),
                                                         None))]
                placed == [scheduled EXCEPT
                            !.blocks[parent_block_index + 1].placements =
                                Append(@, NewPlacement(range.block_start, block_id))]
            IN  Volume2BlockLoop(parent_block_index, dimensions, block_dimensions,
                                 format_index, encoding, placed, n + 1)

volume2block(parent_block_index, dimensions, block_dimensions, format_index, encoding, bvp_state) ==
    Volume2BlockLoop(parent_block_index, dimensions, block_dimensions, format_index,
                     encoding, bvp_state, 1)

\* the call of volume2block in main of raw2bvp.rs, on the volume of this run
SequentialRun ==
    volume2block(0, parameters.dimensions, parameters.block_dimensions,
                 RootBlockIndex, parameters.compression,
                 [formats   |-> bvp_file.formats,
                  blocks    |-> <<[RootBlock EXCEPT !.placements = <<>>]>>,
                  block_map |-> <<>>,
                  files     |-> <<>>])

\* ------------------------------------------------------------------------
\* Stage 1 on its own, over large and small grids
\* ------------------------------------------------------------------------

\* the first integer a f32 cannot hold is F32Exact + 1
F32Exact == Pow2(24)

GridAxis == 1..MaxGridDim

\* dimensions and block dimensions of the grids: every small pair, and pairs
\* whose x components lie beyond the integers a f32 holds
GridConfigs ==
    { [dimensions |-> <<dx, dy, dz>>, block_dimensions |-> <<bx, by, bz>>] :
        dx \in GridAxis, dy \in GridAxis, dz \in 1..2,
        bx \in GridAxis, by \in GridAxis, bz \in 1..2 }
    \cup
    { [dimensions |-> <<F32Exact + 1, dy, 1>>, block_dimensions |-> <<bx, 1, 1>>] :
        dy \in 1..2, bx \in {F32Exact \div 2, F32Exact, F32Exact + 1} }

\* The pipeline before its first packet; the bytes of the volume play no part
\* in stage 1 and are left out.
InitGrid ==
    /\ \E c \in GridConfigs :
          LET format == MonoFormat(1, 1) IN
          /\ parameters = [dimensions |-> c.dimensions,
                           block_dimensions |-> c.block_dimensions,
                           input_format |-> format,
                           compression |-> "raw"]
          /\ bvp_file = [formats |-> <<format>>,
                         blocks |-> <<NewBlock(0, c.dimensions, Some(0), None)>>,
                         modalities |-> <<>>,
                         block_map |-> <<>>]
    /\ token = FALSE
    /\ stage1 = [pc |-> "run",
                 block_count |-> BlockCount(parameters.dimensions,
                                            parameters.block_dimensions),
                 sent |-> 0]
    /\ chan1 = <<>>
    /\ worker = [w \in Workers |-> Idle]
    /\ locks = [m \in {"map", "vec", "placements"} |-> 0]
    /\ poisoned = {}
    /\ block_map = <<>>
    /\ blocks_vec = <<>>
    /\ placements_vec = <<>>
    /\ chan2 = <<>>
    /\ stage3 = [pc |-> "run"]
    /\ zip = <<>>
    /\ main = [pc |-> "scope", result |-> "running"]
    /\ call = None
    /\ ret = None

NextGrid == Stage1Send \/ Stage1Finish

SpecGrid == InitGrid /\ [][NextGrid]_vars

\* ------------------------------------------------------------------------
\* lib/block.rs: calls of get_data_in_range and set_data_in_range
\* ------------------------------------------------------------------------

\* the pipeline is not running
NoPipeline ==
    /\ parameters = None
    /\ bvp_file = None
    /\ token = FALSE
    /\ stage1 = None
    /\ chan1 = <<>>
    /\ worker = None
    /\ locks = None
    /\ poisoned = {}
    /\ block_map = <<>>
    /\ blocks_vec = <<>>
    /\ placements_vec = <<>>
    /\ chan2 = <<>>
    /\ stage3 = None
    /\ zip = <<>>
    /\ main = None

\* Format::new with a mono family of one component
NewFormat(microblock_dimensions, microblock_size) ==
    [MonoFormat(1, microblock_size) EXCEPT
        !.microblock_dimensions = microblock_dimensions]

\* the formats the calls are made with
BlockFormats ==
    { NewFormat(<<1, 1, 1>>, 1), NewFormat(<<1, 1, 1>>, 2),
      NewFormat(<<2, 1, 1>>, 1), NewFormat(<<2, 2, 1>>, 2) }

\* the number of bytes of a block: microblock_size for each whole microblock
ExactSpace(format, dimensions) ==
    format.microblock_size
        * multiply_elements([i \in 1..3 |->
                                dimensions[i] \div format.microblock_dimensions[i]])

\* a block whose n-th byte is first + n, so that no two bytes are equal
TaggedBlock(index, dimensions, format, first) ==
    NewBlock(index, dimensions, Some(0),
             Some([j \in 1..ExactSpace(format, dimensions) |-> first + j]))

\* a block whose bytes are all equal
FlatBlock(index, dimensions, format, byte) ==
    NewBlock(index, dimensions, Some(0),
             Some([j \in 1..ExactSpace(format, dimensions) |-> byte]))

\* a block as the encoder stores it: its bytes compressed, encoding set
Encoded(block, encoding) ==
    [block EXCEPT !.data = Some(Compress(encoding, Unwrap(block.data))),
                  !.encoding = Some(encoding)]

\* block dimensions and coordinates of at most max voxels along x and 2
\* along y and z
BlockDims(max) == { <<x, y, z>> : x \in 1..max, y \in 1..2, z \in 1..2 }
BlockCoords(max) == { <<x, y, z>> : x \in 0..max, y \in 0..2, z \in 0..2 }

\* a microblock of 172961 voxels along x: 97 * 172961 = 2^24 + 1
WideFormat == NewFormat(<<172961, 1, 1>>, 1)
WideDims == <<98 * 172961, 1, 1>>
WideStart == <<97 * 172961, 0, 0>>

\* a call of get_data_in_range(start, end, format) on a block
GetCall(self, start, end, format) ==
    [op |-> "get_data_in_range", self |-> self, start |-> start, end |-> end,
     format |-> format, written |-> None]

\* the source blocks of set_data_in_range: plain, or LZ4S-encoded
SourceBlocks(d, f) ==
    { [block |-> TaggedBlock(1, d, f, 100), plain |-> TaggedBlock(1, d, f, 100)],
      [block |-> Encoded(TaggedBlock(1, d, f, 100), "lz4s"),
       plain |-> TaggedBlock(1, d, f, 100)],
      [block |-> Encoded(FlatBlock(1, d, f, 100), "lz4s"),
       plain |-> FlatBlock(1, d, f, 100)] }

\* a call of set_data_in_range(offset, block, format) on a block; plain holds
\* the bytes the source block was made of
SetCall(self, offset, source, format) ==
    [op |-> "set_data_in_range", self |-> self, offset |-> offset,
     block |-> source.block, plain |-> Unwrap(source.plain.data),
     format |-> format, after |-> None]

\* what makes set_data_in_range refuse a call before it looks at the range
SetFaults == { "self without data", "source without data", "other format" }

\* a call of set_data_in_range at the origin with one of the faults
FaultyCall(fault, self, source, format) ==
    SetCall(IF fault = "self without data" THEN [self EXCEPT !.data = None]
            ELSE IF fault = "other format" THEN [self EXCEPT !.format = Some(1)]
            ELSE self,
            <<0, 0, 0>>,
            IF fault = "source without data"
            THEN [source EXCEPT !.block.data = None]
            ELSE source,
            format)

\* The calls: every start and end, or offset and source block, on every small
\* block with data, and calls on a wide block whose coordinates are beyond
\* the integers an f32 holds exactly.
InitBlock ==
    /\ NoPipeline
    /\ ret = None
    /\ \/ \E d \in BlockDims(MaxBlockDim), f \in BlockFormats,
             s \in BlockCoords(MaxBlockDim), e \in BlockCoords(MaxBlockDim) :
             call = GetCall(TaggedBlock(0, d, f, 0), s, e, f)
       \/ \E s \in { <<0, 0, 0>>, <<172961, 0, 0>>, WideStart } :
             call = GetCall(TaggedBlock(0, WideDims, WideFormat, 0),
                            s, VAdd(s, <<172961, 1, 1>>), WideFormat)
       \/ \E d \in BlockDims(MaxBlockDim), f \in BlockFormats,
             o \in BlockCoords(MaxBlockDim), bd \in BlockDims(MaxBlockDim) :
             \E b \in SourceBlocks(bd, f) :
                call = SetCall(TaggedBlock(0, d, f, 0), o, b, f)
       \/ \E o \in { <<0, 0, 0>>, WideStart },
             bd \in { <<172961, 1, 1>>, WideDims } :
             \E b \in SourceBlocks(bd, WideFormat) :
                call = SetCall(TaggedBlock(0, WideDims, WideFormat, 0), o, b,
                               WideFormat)
       \/ \E d \in BlockDims(MaxBlockDim), f \in BlockFormats, fault \in SetFaults :
             \E b \in SourceBlocks(d, f) :
                call = FaultyCall(fault, TaggedBlock(0, d, f, 0), b, f)

\* get_data_in_range runs, in a build with or without overflow checks
CallGetDataInRange ==
    /\ call # None /\ call.op = "get_data_in_range"
    /\ ret = None
    /\ \E overflow_checks \in BOOLEAN :
          ret' = get_data_in_range_in(call.self, call.start, call.end, call.format,
                                      overflow_checks)
    /\ UNCHANGED call
    /\ UNCHANGED <<parameters, bvp_file, token, stage1, chan1, worker, locks,
                   poisoned, block_map, blocks_vec, placements_vec, chan2, stage3,
                   zip, main>>

\* set_data_in_range runs
CallSetDataInRange ==
    /\ call # None /\ call.op = "set_data_in_range"
    /\ ret = None
    /\ ret' = set_data_in_range(call.self, call.offset, call.block, call.format)
    /\ call' = [call EXCEPT !.after = BlockAfterSet(call.self, call.offset,
                                                    call.block, call.format)]
    /\ UNCHANGED <<parameters, bvp_file, token, stage1, chan1, worker, locks,
                   poisoned, block_map, blocks_vec, placements_vec, chan2, stage3,
                   zip, main>>

\* after a successful set_data_in_range: the caller asks the target for the
\* rectangle it has just written
CallReadBack ==
    /\ call # None /\ call.op = "set_data_in_range"
    /\ ret # None /\ ret.kind = "ok"
    /\ call' = [op |-> "get_data_in_range",
                self |-> [call.self EXCEPT !.data = ret.data],
                start |-> call.offset,
                end |-> VAdd(call.offset, call.block.dimensions),
                format |-> call.format,
                written |-> Some(call.plain)]
    /\ ret' = None
    /\ UNCHANGED <<parameters, bvp_file, token, stage1, chan1, worker, locks,
                   poisoned, block_map, blocks_vec, placements_vec, chan2, stage3,
                   zip, main>>

NextBlock == CallGetDataInRange \/ CallSetDataInRange \/ CallReadBack

SpecBlock == InitBlock /\ [][NextBlock]_vars

\* ------------------------------------------------------------------------
\* Properties of the pipeline
\* ------------------------------------------------------------------------

\* the bytes of the raw volume
Raw == Unwrap(RootBlock.data)

\* the bytes of the sub-block cut from the raw volume at a position
SubBlock(position) ==
    LET range == [block_start |-> position,
                  block_end   |-> VMin(VAdd(position, parameters.block_dimensions),
                                       parameters.dimensions)]
    IN  Unwrap(get_data_in_range([RootBlock EXCEPT !.placements = <<>>],
                                 range.block_start, range.block_end,
                                 Format0).block.data)

\* the distinct sub-block contents of the volume
Contents == { SubBlock(WorkPacket(n).block_start) : n \in 1..NumCells }

\* the entries of the archive under blocks/, and the manifest entries
BlockEntries == { i \in 1..Len(zip) : zip[i].name # ManifestName }
ManifestEntries == { i \in 1..Len(zip) : zip[i].name = ManifestName }

\* the payload of a block file, decompressed
Payload(file) == Decompress(parameters.compression, file.data, 0)

Finished == main.pc = "done"
Completed == main.pc = "done" /\ main.result = "Ok"

\* C1: when the run has ended it has succeeded, there is exactly one block
\* record and exactly one file under blocks/ per distinct sub-block content,
\* and placements of equal content reference the same block id.
C1_DedupeCollapses ==
    Finished =>
        /\ main.result = "Ok"
        /\ Len(blocks_vec) = Cardinality(Contents)
        /\ Cardinality(BlockEntries) = Cardinality(Contents)
        /\ \A d \in Contents :
              \E i \in BlockEntries : Payload(zip[i]) = [ok |-> TRUE, data |-> d]
        /\ Len(placements_vec) = NumCells
        /\ \A j, k \in 1..Len(placements_vec) :
              SubBlock(placements_vec[j].position) = SubBlock(placements_vec[k].position)
                  => placements_vec[j].block = placements_vec[k].block

\* C2: when the run has ended it has succeeded, and bvp2raw on the archive
\* yields the bytes of the raw volume.
C2_RoundTrip ==
    Finished =>
        /\ main.result = "Ok"
        /\ bvp2raw(zip) = [kind |-> "ok", data |-> Raw]

\* C3: when the pipeline completes, every placement (position, id) of the root
\* block references a block whose file, decompressed, holds the bytes cut from
\* the raw volume at that position; block files have distinct names, and
\* sub-blocks of different content are placed under different ids.
C3_NeverMergesDifferentContent ==
    Completed =>
        LET placements == RootBlock.placements IN
        /\ \A k \in 1..Len(placements) :
              LET p == placements[k] IN
              /\ p.block \in 1..(Len(bvp_file.blocks) - 1)
              /\ LET b == bvp_file.blocks[p.block + 1]
                     f == FindByName(zip, Unwrap(b.data_url), 1)
                 IN  /\ b.index = p.block
                     /\ b.data_url # None /\ b.encoding # None
                     /\ f # None
                     /\ Decompress(Unwrap(b.encoding), Unwrap(f).data,
                                   count_space(Format0, b.dimensions))
                           = [ok |-> TRUE, data |-> SubBlock(p.position)]
        /\ \A i, j \in BlockEntries : i # j => zip[i].name # zip[j].name
        /\ \A j, k \in 1..Len(placements) :
              SubBlock(placements[j].position) # SubBlock(placements[k].position)
                  => placements[j].block # placements[k].block

\* a completed run that stored two sub-blocks of the same hash and different
\* bytes
C3_CollisionStored ==
    /\ Completed
    /\ \E j, k \in 1..Len(RootBlock.placements) :
          LET p == RootBlock.placements[j]
              q == RootBlock.placements[k]
          IN  /\ xxh3_64(SubBlock(p.position)) = xxh3_64(SubBlock(q.position))
              /\ SubBlock(p.position) # SubBlock(q.position)
              /\ p.block # q.block

\* C4: every run ends with the outcome of the sequential encoder on the same
\* input: it succeeds, with as many block files and the same set of block
\* payloads.
C4_SameOutcomeAsSequential ==
    Finished =>
        LET seq == SequentialRun IN
        /\ seq.kind = "ok"
        /\ main.result = "Ok"
        /\ Cardinality(BlockEntries) = Len(seq.state.files)
        /\ { zip[i].data : i \in BlockEntries }
              = { seq.state.files[i].data : i \in 1..Len(seq.state.files) }

\* C5: a run in which a worker ended with an error or stage 3 failed to append
\* a file returns an error and writes no manifest.
C5_FailureAborts ==
    (Finished /\ (stage3.pc = "failed" \/ \E w \in Workers : worker[w].pc = "failed"))
        => /\ main.result # "Ok"
           /\ ManifestEntries = {}

\* C6: the i-th block registered by stage 2 has id i, no worker holds an id
\* outside 1..Len(blocks_vec) or an id another worker holds, the root keeps
\* id 0, and after finalization the block with id k sits at position k of the
\* arena.
C6_ArenaMonotonic ==
    /\ \A i \in 1..Len(blocks_vec) : blocks_vec[i].index = i
    /\ \A w \in Workers :
          worker[w].pc \in {"compress", "send"} =>
              /\ worker[w].block_id \in 1..Len(blocks_vec)
              /\ \A v \in Workers \ {w} :
                    worker[v].pc \in {"compress", "send"}
                        => worker[v].block_id # worker[w].block_id
    /\ RootBlock.index = 0
    /\ (Finished /\ main.result # "ScopeFailed") =>
          /\ Len(bvp_file.blocks) = Len(blocks_vec) + 1
          /\ \A k \in 0..(Len(bvp_file.blocks) - 1) : bvp_file.blocks[k + 1].index = k

\* a completed run whose arena holds the root and at least two blocks
C6_ArenaFilled == Completed /\ Len(bvp_file.blocks) >= 3

\* C7: a worker that compresses or is about to send holds none of the locks of
\* the block map, the block vector and the placements vector.
C7_NoLockAcrossSend ==
    \A w \in Workers :
        worker[w].pc \in {"compress", "send"} =>
            \A m \in DOMAIN locks : locks[m] # w

\* a worker about to send while another worker is inside the locked segment
C7_SendBesideLockHolder ==
    \E w, v \in Workers :
        /\ worker[w].pc = "send"
        /\ worker[v].pc = "dedupe"
        /\ locks["map"] = v /\ locks["vec"] = v

\* C8: once the archive holds a manifest entry, it holds exactly one and it is
\* the last entry; stage 3 has ended on the closed, drained channel after
\* appending every file it received; every registered block has its file in
\* the archive; and the manifest describes every block and placement of the run.
C8_ManifestLastAndComplete ==
    ManifestEntries # {} =>
        /\ ManifestEntries = {Len(zip)}
        /\ stage3.pc = "done"
        /\ chan2 = <<>>
        /\ AllWorkersEnded
        /\ \A i \in 1..Len(blocks_vec) :
              FindByName(zip, BlockUrl(blocks_vec[i].index), 1) # None
        /\ LET manifest == zip[Len(zip)].data IN
           /\ Len(manifest.blocks) = Len(blocks_vec) + 1
           /\ manifest.blocks[RootBlockIndex + 1].placements = placements_vec
           /\ \A i \in 1..Len(blocks_vec) :
                 manifest.blocks[i + 1] = BlockToJson(blocks_vec[i])

\* the exact number of cells along each axis
GridCount == [i \in 1..3 |->
                 (parameters.dimensions[i] + parameters.block_dimensions[i] - 1)
                     \div parameters.block_dimensions[i]]

\* the number of voxels of a packet
PacketVolume(work) == multiply_elements(VSub(work.block_end, work.block_start))

RECURSIVE SumVolumes(_, _)
SumVolumes(packets, n) ==
    IF n = 0 THEN 0 ELSE PacketVolume(packets[n]) + SumVolumes(packets, n - 1)

\* C9: when stage 1 has ended, it has sent exactly one packet per cell of the
\* grid ceil(D/B), with block_start = B * cell and block_end = min(block_start
\* + B, D); the packets are non-empty, lie inside the volume, are pairwise
\* disjoint, and together hold every voxel of the volume.
C9_GridCoversVolume ==
    stage1.pc = "done" =>
        LET D == parameters.dimensions
            B == parameters.block_dimensions
            packets == chan1
        IN
        /\ Len(packets) = multiply_elements(GridCount)
        /\ \A x \in 0..(GridCount[1] - 1), y \in 0..(GridCount[2] - 1),
              z \in 0..(GridCount[3] - 1) :
              Cardinality({ n \in 1..Len(packets) :
                              /\ packets[n].block_start = VMul(B, <<x, y, z>>)
                              /\ packets[n].block_end =
                                    VMin(VAdd(packets[n].block_start, B), D) }) = 1
        /\ \A n \in 1..Len(packets) :
              \A i \in 1..3 :
                 /\ 0 <= packets[n].block_start[i]
                 /\ packets[n].block_start[i] < packets[n].block_end[i]
                 /\ packets[n].block_end[i] <= D[i]
        /\ \A n, m \in 1..Len(packets) :
              n # m =>
                 \E i \in 1..3 :
                    \/ packets[n].block_end[i] <= packets[m].block_start[i]
                    \/ packets[m].block_end[i] <= packets[n].block_start[i]
        /\ SumVolumes(packets, Len(packets)) = multiply_elements(D)

\* C10: once the cancellation flag is set, no step emits a packet, takes a
\* packet from the stage-1 channel or takes a file from the stage-2 channel.
C10_CancelStopsIntake ==
    [][token => (chan1' = chan1 /\ Len(chan2') >= Len(chan2))]_vars

\* ------------------------------------------------------------------------
\* Properties of the block engine
\* ------------------------------------------------------------------------

GetDone == call # None /\ call.op = "get_data_in_range" /\ ret # None
SetDone == call # None /\ call.op = "set_data_in_range" /\ ret # None

\* exact arithmetic on vectors
Divisible(v, md) == \A i \in 1..3 : v[i] % md[i] = 0
ExactDiv(v, md) == [i \in 1..3 |-> v[i] \div md[i]]
Within(start, end, dimensions) ==
    \A i \in 1..3 : 0 <= start[i] /\ start[i] <= end[i] /\ end[i] <= dimensions[i]

\* the microblock coordinate of linear index q in a structure of dimensions dim
Coordinate(q, dim) ==
    << q % dim[1], (q \div dim[1]) % dim[2], q \div (dim[1] * dim[2]) >>

\* a call of get_data_in_range on a block with data whose dimensions are
\* multiples of the microblock, over an aligned range inside the block
GetInDomain ==
    /\ GetDone
    /\ call.self.data # None
    /\ Divisible(call.self.dimensions, call.format.microblock_dimensions)
    /\ Within(call.start, call.end, call.self.dimensions)
    /\ Divisible(call.start, call.format.microblock_dimensions)
    /\ Divisible(VSub(call.end, call.start), call.format.microblock_dimensions)

\* a call of set_data_in_range between blocks with data, of one format, whose
\* dimensions are multiples of the microblock, at an aligned offset at which
\* the source fits inside the target
SetInDomain ==
    /\ SetDone
    /\ call.self.data # None /\ call.block.data # None
    /\ call.self.format = call.block.format
    /\ Divisible(call.self.dimensions, call.format.microblock_dimensions)
    /\ Within(call.offset, VAdd(call.offset, call.block.dimensions),
              call.self.dimensions)
    /\ Divisible(call.offset, call.format.microblock_dimensions)
    /\ Divisible(call.block.dimensions, call.format.microblock_dimensions)

\* C11: get_data_in_range over an aligned range [s, e) inside a block X
\* returns a fresh leaf block Y of dimensions e - s and the format index of X,
\* whose buffer holds microblock_size bytes per microblock of the range, and
\* the microblock of Y at p is the microblock of X at p + s / md.
C11_MicroblockCopyLaw ==
    GetInDomain =>
        LET md      == call.format.microblock_dimensions
            ms      == call.format.microblock_size
            extent  == VSub(call.end, call.start)
            range   == ExactDiv(extent, md)
            first   == ExactDiv(call.start, md)
            inblock == ExactDiv(call.self.dimensions, md)
            X       == Unwrap(call.self.data)
        IN  /\ ret.kind = "ok"
            /\ ret.block.dimensions = extent
            /\ ret.block.format = call.self.format
            /\ ret.block.placements = <<>>
            /\ ret.block.data_url = None /\ ret.block.encoding = None
            /\ ret.block.data # None
            /\ Len(Unwrap(ret.block.data)) = ms * multiply_elements(range)
            /\ \A x \in 0..(range[1] - 1), y \in 0..(range[2] - 1),
                  z \in 0..(range[3] - 1), i \in 0..(ms - 1) :
                  Unwrap(ret.block.data)[ms * linear_index(<<x, y, z>>, range) + i + 1]
                     = X[ms * linear_index(VAdd(<<x, y, z>>, first), inblock) + i + 1]

\* C12: a successful set_data_in_range leaves the target with as many bytes,
\* each byte of a microblock inside [offset, offset + src.dimensions) being
\* the byte of the source at the same place of the rectangle, and each byte
\* outside it the byte the target had.
C12_SetWritesExactlyRectangle ==
    SetInDomain =>
        LET md      == call.format.microblock_dimensions
            ms      == call.format.microblock_size
            range   == ExactDiv(call.block.dimensions, md)
            first   == ExactDiv(call.offset, md)
            inblock == ExactDiv(call.self.dimensions, md)
            old     == Unwrap(call.self.data)
        IN  /\ ret.kind = "ok"
            /\ Len(Unwrap(ret.data)) = Len(old)
            /\ \A j \in 1..Len(old) :
                  LET q      == Coordinate((j - 1) \div ms, inblock)
                      inside == \A i \in 1..3 :
                                   first[i] <= q[i] /\ q[i] < first[i] + range[i]
                  IN  Unwrap(ret.data)[j] =
                         IF inside
                         THEN call.plain[ms * linear_index(VSub(q, first), range)
                                         + ((j - 1) % ms) + 1]
                         ELSE old[j]

\* C13: set_data_in_range of a leaf block, plain or LZ4S-encoded, at offset
\* (0,0,0) into a block of the same dimensions and format leaves the target
\* with the decompressed bytes of the source; and get_data_in_range over the
\* rectangle a set_data_in_range has just written returns the bytes written.
C13_ScatterGather ==
    /\ (/\ SetInDomain
        /\ call.offset = <<0, 0, 0>>
        /\ call.block.dimensions = call.self.dimensions)
          => ret = [kind |-> "ok", data |-> Some(call.plain)]
    /\ (GetDone /\ call.written # None)
          => (ret.kind = "ok" /\ ret.block.data = call.written)

\* the whole of a target has been written from a source of 4 bytes or more
\* and read back
C13_WrittenAndReadBack ==
    /\ GetDone /\ call.written # None
    /\ call.start = <<0, 0, 0>> /\ call.end = call.self.dimensions
    /\ Len(Unwrap(call.written)) >= 4
    /\ ret.kind = "ok"

\* C14: with microblock dimensions that are not all 1, a call that is in
\* bounds returns BlockInvalidPosition when its start is not divisible by
\* the microblock dimensions, and BlockInvalidSize when its start is and its
\* extent is not; the result is the error alone.
C14_AlignmentRefusal ==
    /\ (/\ GetDone
        /\ call.format.microblock_dimensions # <<1, 1, 1>>
        /\ call.self.data # None
        /\ Within(call.start, call.end, call.self.dimensions))
          => LET md == call.format.microblock_dimensions IN
             /\ ~Divisible(call.start, md)
                   => ret = [kind |-> "err", err |-> "BlockInvalidPosition"]
             /\ (Divisible(call.start, md) /\ ~Divisible(VSub(call.end, call.start), md))
                   => ret = [kind |-> "err", err |-> "BlockInvalidSize"]
    /\ (/\ SetDone
        /\ call.format.microblock_dimensions # <<1, 1, 1>>
        /\ call.self.data # None /\ call.block.data # None
        /\ call.self.format = call.block.format
        /\ Within(call.offset, VAdd(call.offset, call.block.dimensions),
                  call.self.dimensions))
          => LET md == call.format.microblock_dimensions IN
             /\ ~Divisible(call.offset, md)
                   => ret = [kind |-> "err", err |-> "BlockInvalidPosition"]
             /\ (Divisible(call.offset, md) /\ ~Divisible(call.block.dimensions, md))
                   => ret = [kind |-> "err", err |-> "BlockInvalidSize"]

\* a set_data_in_range at an aligned offset refused for the size of its source
C14_SizeRefused ==
    /\ SetDone
    /\ Divisible(call.offset, call.format.microblock_dimensions)
    /\ call.offset # <<0, 0, 0>>
    /\ ret = [kind |-> "err", err |-> "BlockInvalidSize"]

\* C15: get_data_in_range with a component of start greater than that of end
\* returns the error StartGreaterThanEnd.
C15_StartGreaterThanEnd ==
    (GetDone /\ is_any_gt(call.start, call.end))
        => ret = [kind |-> "err", err |-> "StartGreaterThanEnd"]

\* ------------------------------------------------------------------------
\* compression.rs: calls of compress_lz4s and decompress_lz4s
\* ------------------------------------------------------------------------

\* n bytes in which no four consecutive bytes occur twice (n <= 510)
NoRepeat(n) == [j \in 1..n |-> IF j % 2 = 1 THEN 0 ELSE j \div 2]

\* n equal bytes
Flat(n) == [j \in 1..n |-> 7]

\* the lengths of the runs of literals: around 15, from which a length byte
\* follows the token
LiteralRuns == {14, 15, 16}

\* the lengths of the matches: around 15 and around 15 + 255, from which a
\* second length byte follows
MatchRuns == {14, 15, 16, 269, 270, 271}

\* The inputs of the codec: every sequence of at most MaxLz4Len bytes over
\* {0, 1}; runs of literals; runs of one byte (one literal and a match); a run
\* of literals followed by its copy; a run of literals followed by a run of
\* one byte.
Lz4Inputs ==
    UNION { [1..n -> {0, 1}] : n \in 0..MaxLz4Len }
    \cup { NoRepeat(n) : n \in LiteralRuns }
    \cup { Flat(m + 1) : m \in MatchRuns }
    \cup { NoRepeat(n) \o NoRepeat(n) : n \in LiteralRuns }
    \cup { NoRepeat(n) \o Flat(m + 1) : n \in LiteralRuns, m \in MatchRuns }

InitLz4 ==
    /\ NoPipeline
    /\ \E src \in Lz4Inputs : call = [op |-> "compress_lz4s", src |-> src]
    /\ ret = None

\* compress_lz4s(src)
CallCompress ==
    /\ call # None /\ call.op = "compress_lz4s"
    /\ ret = None
    /\ ret' = [compressed |-> compress_lz4s(call.src), decompressed |-> None]
    /\ UNCHANGED call
    /\ UNCHANGED <<parameters, bvp_file, token, stage1, chan1, worker, locks,
                   poisoned, block_map, blocks_vec, placements_vec, chan2, stage3,
                   zip, main>>

\* decompress_lz4s(compressed, src.len())
CallDecompress ==
    /\ call # None /\ call.op = "compress_lz4s"
    /\ ret # None /\ ret.decompressed = None
    /\ ret' = [ret EXCEPT !.decompressed =
                  Some(decompress_lz4s(ret.compressed, Len(call.src)))]
    /\ UNCHANGED call
    /\ UNCHANGED <<parameters, bvp_file, token, stage1, chan1, worker, locks,
                   poisoned, block_map, blocks_vec, placements_vec, chan2, stage3,
                   zip, main>>

NextLz4 == CallCompress \/ CallDecompress

SpecLz4 == InitLz4 /\ [][NextLz4]_vars

Compressed == call # None /\ call.op = "compress_lz4s" /\ ret # None
Decompressed == Compressed /\ ret.decompressed # None

\* C16: decompress_lz4s(compress_lz4s(b), len(b)) = b for every input b.
C16_Lz4RoundTrip ==
    Decompressed => ret.decompressed = Some([ok |-> TRUE, data |-> call.src])

\* the round trip of 17 literals followed by a match of 270 bytes, both with
\* extra length bytes
C16_LongRunsRoundTrip ==
    /\ Decompressed
    /\ call.src = NoRepeat(16) \o Flat(271)
    /\ Len(ret.compressed) < Len(call.src)
    /\ ret.compressed[1] = 255

\* C17: compress_lz4s of the empty sequence is a zero-literal token followed
\* by the end token 0x00 and nothing else, and decompress_lz4s of it is the
\* empty sequence.
C17_EmptyInput ==
    (Compressed /\ call.src = <<>>) =>
        /\ ret.compressed = <<0, 0>>
        /\ ret.decompressed # None
              => ret.decompressed = Some([ok |-> TRUE, data |-> <<>>])

\* ------------------------------------------------------------------------
\* lib/archives/saf.rs: the SAF archive
\* ------------------------------------------------------------------------

\* Strings (file names, mime types, JSON text) are sequences of bytes.

SAF_IDENTIFIER_LENGTH == 12
SAF_IDENTIFIER == <<171, 83, 65, 70, 32, 49, 48, 187, 13, 10, 26, 10>>

\* the keys of a manifest entry, as text
KeyText == [path |-> <<112, 97, 116, 104>>,
            mime |-> <<109, 105, 109, 101>>,
            size |-> <<115, 105, 122, 101>>]

\* The JSON text tinyjson writes and reads, for arrays of objects whose values
\* are strings without characters to escape and whole numbers:
\* `"` = 34, `,` = 44, `:` = 58, `[` = 91, `]` = 93, `{` = 123, `}` = 125.

RECURSIVE Digits(_)
\* a whole number in decimal
Digits(n) == IF n < 10 THEN <<48 + n>> ELSE Digits(n \div 10) \o <<48 + (n % 10)>>

JsonString(str) == <<34>> \o str \o <<34>>

\* a value of the manifest: [type |-> "string", v] or [type |-> "number", v]
JsonValueText(value) ==
    IF value.type = "string" THEN JsonString(value.v) ELSE Digits(value.v)

RECURSIVE Join(_, _)
Join(texts, n) ==
    IF n = 0 THEN <<>>
    ELSE IF n = 1 THEN texts[1]
    ELSE Join(texts, n - 1) \o <<44>> \o texts[n]

\* an object (a function from keys to values) written with its keys in the
\* order `order`, the iteration order of its HashMap
StringifyObject(object, order) ==
    <<123>>
    \o Join([k \in 1..Len(order) |->
                JsonString(KeyText[order[k]]) \o <<58>>
                \o JsonValueText(object[order[k]])], Len(order))
    \o <<125>>

\* JsonValue::stringify of an array of objects
Stringify(objects, orders) ==
    <<91>>
    \o Join([i \in 1..Len(objects) |-> StringifyObject(objects[i], orders[i])],
            Len(objects))
    \o <<93>>

\* the orders in which a HashMap of these keys may be iterated
KeyOrders(keys) ==
    { order \in [1..Cardinality(keys) -> keys] :
        \A i, j \in 1..Cardinality(keys) : i # j => order[i] # order[j] }

\* a string starting at its opening quote t[i]: [ok, v, next]
ParseString(t, i) ==
    IF i > Len(t) \/ t[i] # 34 \/ ~\E k \in (i + 1)..Len(t) : t[k] = 34
    THEN [ok |-> FALSE, v |-> <<>>, next |-> i]
    ELSE LET close == CHOOSE k \in (i + 1)..Len(t) :
                         t[k] = 34 /\ \A m \in (i + 1)..(k - 1) : t[m] # 34
         IN  [ok |-> TRUE, v |-> SubSeq(t, i + 1, close - 1), next |-> close + 1]

RECURSIVE DigitsValue(_, _, _)
DigitsValue(t, i, end) ==
    IF end < i THEN 0 ELSE 10 * DigitsValue(t, i, end - 1) + (t[end] - 48)

\* a whole number starting at t[i]: [ok, v, next]
ParseNumber(t, i) ==
    LET stops == { k \in i..(Len(t) + 1) : k = Len(t) + 1 \/ t[k] \notin 48..57 }
        end   == CHOOSE k \in stops : \A m \in stops : k <= m
    IN  IF end = i THEN [ok |-> FALSE, v |-> 0, next |-> i]
        ELSE [ok |-> TRUE, v |-> DigitsValue(t, i, end - 1), next |-> end]

ParseValue(t, i) ==
    IF i <= Len(t) /\ t[i] = 34
    THEN LET str == ParseString(t, i)
         IN  [ok |-> str.ok, value |-> [type |-> "string", v |-> str.v], next |-> str.next]
    ELSE LET num == ParseNumber(t, i)
         IN  [ok |-> num.ok, value |-> [type |-> "number", v |-> num.v], next |-> num.next]

RECURSIVE ParseMembers(_, _, _)
\* the members of an object from the key at t[i] to the closing brace
ParseMembers(t, i, object) ==
    LET key == ParseString(t, i) IN
    IF ~key.ok \/ key.next > Len(t) \/ t[key.next] # 58
       \/ ~\E k \in DOMAIN KeyText : KeyText[k] = key.v
    THEN [ok |-> FALSE, object |-> object, next |-> i]
    ELSE
        LET name  == CHOOSE k \in DOMAIN KeyText : KeyText[k] = key.v
            value == ParseValue(t, key.next + 1)
            added == [k \in DOMAIN object \cup {name} |->
                        IF k = name THEN value.value ELSE object[k]]
        IN  IF ~value.ok \/ value.next > Len(t)
            THEN [ok |-> FALSE, object |-> object, next |-> i]
            ELSE IF t[value.next] = 44 THEN ParseMembers(t, value.next + 1, added)
            ELSE IF t[value.next] = 125
                 THEN [ok |-> TRUE, object |-> added, next |-> value.next + 1]
            ELSE [ok |-> FALSE, object |-> object, next |-> i]

RECURSIVE ParseElements(_, _, _)
\* the objects of an array from the object at t[i] to the closing bracket
ParseElements(t, i, objects) ==
    IF i + 1 > Len(t) \/ t[i] # 123 THEN [ok |-> FALSE, value |-> objects]
    ELSE
        LET object == IF t[i + 1] = 125
                      THEN [ok |-> TRUE, object |-> <<>>, next |-> i + 2]
                      ELSE ParseMembers(t, i + 1, <<>>)
        IN  IF ~object.ok \/ object.next > Len(t)
            THEN [ok |-> FALSE, value |-> objects]
            ELSE IF t[object.next] = 44
                 THEN ParseElements(t, object.next + 1, Append(objects, object.object))
            ELSE IF t[object.next] = 93 /\ object.next = Len(t)
                 THEN [ok |-> TRUE, value |-> Append(objects, object.object)]
            ELSE [ok |-> FALSE, value |-> objects]

\* JsonValue::from_str of an array of objects: [ok, value]
FromStr(t) ==
    IF Len(t) < 2 \/ t[1] # 91 THEN [ok |-> FALSE, value |-> <<>>]
    ELSE IF t[2] = 93 THEN [ok |-> Len(t) = 2, value |-> <<>>]
    ELSE ParseElements(t, 2, <<>>)

\* u32::to_le_bytes, written most significant byte first
to_le_bytes_reversed(n) ==
    <<(n \div 16777216) % 256, (n \div 65536) % 256, (n \div 256) % 256, n % 256>>

\* u32::to_le_bytes
to_le_bytes(n) ==
    <<n % 256, (n \div 256) % 256, (n \div 65536) % 256, (n \div 16777216) % 256>>

\* u32::from_le_bytes; values from 2^31 on are outside the model
from_le_bytes(arr) ==
    arr[1] + 256 * arr[2] + 65536 * arr[3] + 16777216 * (arr[4] % 128)

RECURSIVE ConcatData(_, _)
\* the payloads of the first n files, one after the other
ConcatData(files, n) ==
    IF n = 0 THEN <<>> ELSE ConcatData(files, n - 1) \o files[n].data

check_identifier(data) ==
    IF Len(data) < SAF_IDENTIFIER_LENGTH THEN [kind |-> "Err", error |-> "BrokenFile"]
    ELSE IF \E i \in 1..SAF_IDENTIFIER_LENGTH : SAF_IDENTIFIER[i] # data[i]
         THEN [kind |-> "Err", error |-> "NotValidIdentifier"]
    ELSE [kind |-> "Ok"]

get_manifest_size(vec, offset) ==
    IF Len(vec) < offset + 4 THEN [kind |-> "Err", error |-> "BrokenFile"]
    ELSE [kind |-> "Ok",
          value |-> from_le_bytes([i \in 1..4 |-> vec[offset + i]])]

get_manifest(vec, offset, length) ==
    IF offset + length > Len(vec) THEN [kind |-> "panic"]
    ELSE LET j == FromStr(SubSeq(vec, offset + 1, offset + length))
         IN  IF j.ok THEN [kind |-> "Ok", value |-> j.value]
             ELSE [kind |-> "Err", error |-> "ManifestCorrupt"]

\* the HashMap of one file in to_saf_archive
FileHashmap(file) ==
    [k \in IF file.mime # None THEN {"path", "mime", "size"} ELSE {"path", "size"} |->
        IF k = "path" THEN [type |-> "string", v |-> file.name]
        ELSE IF k = "mime" THEN [type |-> "string", v |-> Unwrap(file.mime)]
        ELSE [type |-> "number", v |-> Len(file.data)]]

\* the manifest text of to_saf_archive, orders[i] being the iteration order of
\* the HashMap of files[i]
ManifestText(files, orders) ==
    Stringify([i \in 1..Len(files) |-> FileHashmap(files[i])], orders)

\* to_saf_archive(files); no manifest of the model reaches 2^32 bytes
to_saf_archive(files, orders) ==
    LET manifest_buffer == ManifestText(files, orders)
        manifest_size_buffer == to_le_bytes(Len(manifest_buffer))
    IN  SAF_IDENTIFIER \o manifest_size_buffer \o manifest_buffer
        \o ConcatData(files, Len(files))

RECURSIVE FromSafLoop(_, _, _, _, _)
\* the loop over the manifest entries in from_saf_archive
FromSafLoop(saf, manifest_files, i, offset, files) ==
    IF i > Len(manifest_files) THEN [kind |-> "Ok", files |-> files]
    ELSE
        LET o == manifest_files[i] IN
        IF "path" \notin DOMAIN o THEN [kind |-> "panic"]
        ELSE IF o["path"].type # "string" THEN [kind |-> "Err", error |-> "InvalidJson"]
        ELSE IF "mime" \in DOMAIN o /\ o["mime"].type # "string"
             THEN [kind |-> "Err", error |-> "InvalidJson"]
        ELSE IF "size" \notin DOMAIN o THEN [kind |-> "panic"]
        ELSE IF o["size"].type # "number" THEN [kind |-> "Err", error |-> "InvalidJson"]
        ELSE
            LET path == o["path"].v
                mime == IF "mime" \in DOMAIN o THEN o["mime"].v ELSE <<>>
                size == o["size"].v
            IN  IF offset + size > Len(saf) THEN [kind |-> "panic"]
                ELSE FromSafLoop(saf, manifest_files, i + 1, offset + size,
                         Append(files,
                             NewFile(path, SubSeq(saf, offset + 1, offset + size),
                                     Some(mime))))

from_saf_archive(saf) ==
    LET identifier == check_identifier(saf) IN
    IF identifier.kind # "Ok" THEN identifier
    ELSE
        LET manifest_size == get_manifest_size(saf, SAF_IDENTIFIER_LENGTH) IN
        IF manifest_size.kind # "Ok" THEN manifest_size
        ELSE
            LET manifest == get_manifest(saf, SAF_IDENTIFIER_LENGTH + 4,
                                         manifest_size.value)
            IN  IF manifest.kind # "Ok" THEN manifest
                ELSE FromSafLoop(saf, manifest.value, 1,
                         SAF_IDENTIFIER_LENGTH + 4 + manifest_size.value, <<>>)

\* ------------------------------------------------------------------------
\* lib/archives/saf.rs: calls of to_saf_archive and from_saf_archive
\* ------------------------------------------------------------------------

\* n bytes `a`
LongName(n) == [j \in 1..n |-> 97]

\* The members of the archives: names `a` and `bc`, no payload or two bytes,
\* with or without a mime type (`t`); a member whose payload has a size of two
\* digits and an empty mime type; a member whose name makes the manifest
\* longer than 255 bytes.
SafFiles ==
    { NewFile(name, data, mime) :
        name \in {<<97>>, <<98, 99>>}, data \in {<<>>, <<1, 2>>},
        mime \in {None, Some(<<116>>)} }
    \cup { NewFile(<<100>>, [j \in 1..10 |-> j], Some(<<>>)),
           NewFile(LongName(250), <<3>>, None) }

InitSaf ==
    /\ NoPipeline
    /\ \E n \in 0..MaxSafFiles : \E files \in [1..n -> SafFiles] :
           call = [op |-> "to_saf_archive", files |-> files]
    /\ ret = None

\* to_saf_archive(files)
CallToSaf ==
    /\ call # None /\ call.op = "to_saf_archive"
    /\ ret = None
    /\ \E orders \in [1..Len(call.files) -> UNION { KeyOrders(keys) : keys \in SUBSET DOMAIN KeyText }] :
           /\ \A i \in 1..Len(call.files) :
                  orders[i] \in KeyOrders(DOMAIN FileHashmap(call.files[i]))
           /\ ret' = [saf |-> to_saf_archive(call.files, orders),
                      orders |-> orders, files |-> None]
    /\ UNCHANGED call
    /\ UNCHANGED <<parameters, bvp_file, token, stage1, chan1, worker, locks,
                   poisoned, block_map, blocks_vec, placements_vec, chan2, stage3,
                   zip, main>>

\* from_saf_archive(saf)
CallFromSaf ==
    /\ call # None /\ call.op = "to_saf_archive"
    /\ ret # None /\ ret.files = None
    /\ ret' = [ret EXCEPT !.files = Some(from_saf_archive(ret.saf))]
    /\ UNCHANGED call
    /\ UNCHANGED <<parameters, bvp_file, token, stage1, chan1, worker, locks,
                   poisoned, block_map, blocks_vec, placements_vec, chan2, stage3,
                   zip, main>>

NextSaf == CallToSaf \/ CallFromSaf

SpecSaf == InitSaf /\ [][NextSaf]_vars

Archived == call # None /\ call.op = "to_saf_archive" /\ ret # None
Extracted == Archived /\ ret.files # None

\* C18: from_saf_archive(to_saf_archive(files)) returns the same list: the
\* same length and order, and for each member the same name, the same bytes
\* and the same mime, a member without mime coming back without mime.
C18_SafRoundTrip ==
    Extracted => ret.files = Some([kind |-> "Ok", files |-> call.files])

\* C19: the archive is the 12 magic bytes, then at offset 12 the little-endian
\* u32 length of the manifest JSON, then the manifest JSON with one entry per
\* file in input order whose size is that file's byte length, then the
\* payloads concatenated in the same order; its length is 16 + the manifest
\* length + the sum of the payload lengths.
C19_SafLayout ==
    Archived =>
        LET saf      == ret.saf
            M        == Len(saf) - 16 - Len(ConcatData(call.files, Len(call.files)))
            manifest == FromStr(SubSeq(saf, 17, 16 + M))
        IN  /\ M >= 0
            /\ SubSeq(saf, 1, 12) = <<171, 83, 65, 70, 32, 49, 48, 187, 13, 10, 26, 10>>
            /\ saf[13] + 256 * saf[14] + 65536 * saf[15] + 16777216 * saf[16] = M
            /\ manifest.ok
            /\ Len(manifest.value) = Len(call.files)
            /\ \A i \in 1..Len(call.files) :
                   /\ manifest.value[i]["path"] = [type |-> "string", v |-> call.files[i].name]
                   /\ manifest.value[i]["size"] = [type |-> "number", v |-> Len(call.files[i].data)]
            /\ SubSeq(saf, 17 + M, Len(saf)) = ConcatData(call.files, Len(call.files))

\* an archive of two members with payloads whose manifest is longer than 255
\* bytes
C19_TwoPayloadsLongManifest ==
    /\ Archived
    /\ Len(call.files) = 2
    /\ call.files[1].data = <<1, 2>> /\ call.files[2].data = <<3>>
    /\ ret.saf[14] = 1

\* ------------------------------------------------------------------------
\* Properties of the finalized manifest
\* ------------------------------------------------------------------------

\* the manifest written as the last entry of the archive
Manifest == zip[Len(zip)].data

\* C20: in the manifest of a completed run every cross-reference is a valid
\* positional index: modality.block is the position in the blocks array of the
\* root block (the block of the whole volume, without payload, holding one
\* placement per cell); each root placement's block is the position of the
\* block record whose file holds the payload of that cell; each block's format
\* is a position in the formats array, where the input format is.
C20_ManifestIndexesPositional ==
    Completed =>
        /\ zip[Len(zip)].name = ManifestName
        /\ Len(Manifest.modalities) = 1
        /\ Manifest.modalities[1].block \in 0..(Len(Manifest.blocks) - 1)
        /\ LET root == Manifest.blocks[Manifest.modalities[1].block + 1] IN
           /\ root.dimensions = parameters.dimensions
           /\ root.data = None
           /\ Len(root.placements) = NumCells
           /\ \A k \in 1..Len(root.placements) :
                 LET p == root.placements[k] IN
                 /\ p.block \in 0..(Len(Manifest.blocks) - 1)
                 /\ LET b == Manifest.blocks[p.block + 1] IN
                    /\ b.data # None /\ b.encoding # None
                    /\ \E i \in BlockEntries :
                          /\ zip[i].name = Unwrap(b.data)
                          /\ Decompress(Unwrap(b.encoding), zip[i].data,
                                        count_space(parameters.input_format, b.dimensions))
                                = [ok |-> TRUE, data |-> SubBlock(p.position)]
        /\ \A n \in 1..Len(Manifest.blocks) :
              LET b == Manifest.blocks[n] IN
              /\ b.format # None
              /\ Unwrap(b.format) \in 0..(Len(Manifest.formats) - 1)
              /\ Manifest.formats[Unwrap(b.format) + 1]
                    = FormatToJson(parameters.input_format)

\* a manifest whose root block places two cells on two different block
\* records, neither of them at the position of the root
C20_TwoCellsPlaced ==
    /\ Completed
    /\ zip[Len(zip)].name = ManifestName
    /\ Len(Manifest.blocks) = 3
    /\ \E j, k \in 1..Len(Manifest.blocks[1].placements) :
          /\ Manifest.blocks[1].placements[j].block = 1
          /\ Manifest.blocks[1].placements[k].block = 2

\* ------------------------------------------------------------------------
\* bvp2raw.rs: main on the files of an archive, step by step
\* ------------------------------------------------------------------------

\* the most placements a block entry of the manifests read holds
MaxPlacements == 2

\* the block file of the archives read, and the name of a file that is absent
LeafFile == NewFile(BlockUrl(1), <<5>>, None)
AbsentUrl == BlockUrl(2)

\* `data` and `encoding` of a block entry: neither; a file of the archive
\* with its encoding; a file of the archive without encoding; a file that is
\* not in the archive
DataRefs ==
    { [data |-> None, encoding |-> None],
      [data |-> Some(LeafFile.name), encoding |-> Some("raw")],
      [data |-> Some(LeafFile.name), encoding |-> None],
      [data |-> Some(AbsentUrl), encoding |-> Some("raw")] }

\* the placements of a block entry of a manifest of n blocks: none, one at
\* (0,0,0), or one at (0,0,0) and one at (1,0,0)
PlacementLists(n) ==
    { <<>> }
    \cup { <<NewPlacement(<<0, 0, 0>>, b)>> : b \in 0..(n - 1) }
    \cup { <<NewPlacement(<<0, 0, 0>>, b), NewPlacement(<<1, 0, 0>>, c)>> :
             b \in 0..(n - 1), c \in 0..(n - 1) }

\* the block entries of a manifest of n blocks, of the given dimensions
ManifestBlockEntries(n, dimensions) ==
    { [dimensions |-> dimensions, placements |-> p, format |-> f,
       data |-> d.data, encoding |-> d.encoding] :
        p \in PlacementLists(n), f \in {None, Some(0)}, d \in DataRefs }

\* the files of an archive with the given manifest
ArchiveFiles(manifest) ==
    <<NewFile(ManifestName, manifest, Some("application/json")), LeafFile>>

\* The archives read: a manifest of one format (one byte per voxel), one
\* modality on block 0, and at most MaxManifestBlocks blocks: block 0 of
\* dimensions (2,1,1), the others of dimensions (1,1,1); the placements refer
\* to any block of the manifest.
InitRead ==
    /\ NoPipeline
    /\ ret = None
    /\ \E n \in 1..MaxManifestBlocks :
       \E root \in ManifestBlockEntries(n, <<2, 1, 1>>) :
       \E rest \in [2..n -> ManifestBlockEntries(n, <<1, 1, 1>>)] :
           call = [op |-> "bvp2raw",
                   files |-> ArchiveFiles(
                       [formats |-> <<FormatToJson(MonoFormat(1, 1))>>,
                        modalities |-> <<[block |-> 0]>>,
                        blocks |-> [i \in 1..n |-> IF i = 1 THEN root ELSE rest[i]]])]

\* the locals of main between get_bvp_state and the end
Walk(pc, state, result) ==
    [pc |-> pc, state |-> state, result |-> result, stack |-> <<>>,
     frames |-> <<>>, dest |-> None, format |-> None, output |-> None,
     supplied |-> {}]

\* get_bvp_state(files): from_manifest panics, fails, or gives the state; then
\* main enters find_format for the modality with its root on the stack
ReadManifest ==
    /\ call # None /\ call.op = "bvp2raw"
    /\ ret = None
    /\ LET state == from_manifest(call.files[1].data, call.files) IN
       ret' = IF state.kind = "panic" THEN Walk("panicked", state, "panic")
              ELSE IF state.kind = "err" THEN Walk("returned", state, "Err")
              ELSE [Walk("find_format", state, "none") EXCEPT
                       !.stack = <<state.bvp.modalities[1].block>>]
    /\ UNCHANGED call
    /\ UNCHANGED <<parameters, bvp_file, token, stage1, chan1, worker, locks,
                   poisoned, block_map, blocks_vec, placements_vec, chan2, stage3,
                   zip, main>>

\* One iteration of `while !stack.is_empty()` of find_format.  A stack longer
\* than MaxPlacements entries per block of the manifest holds a block below
\* itself: the walk from that block repeats for ever and the stack grows
\* without end ("diverges").
FindFormatStep ==
    /\ ret # None /\ ret.pc = "find_format"
    /\ LET bvp == ret.state.bvp IN
       IF ret.stack = <<>>
       THEN \* Err("No format found"): errors.push, continue
            ret' = [ret EXCEPT !.pc = "returned", !.result = "Err"]
       ELSE
         LET block_index == ret.stack[Len(ret.stack)]
             rest        == SubSeq(ret.stack, 1, Len(ret.stack) - 1)
         IN  IF block_index >= Len(bvp.blocks)
             THEN ret' = [ret EXCEPT !.pc = "panicked", !.result = "panic"]
             ELSE
               LET block == bvp.blocks[block_index + 1] IN
               IF block.format # None
               THEN IF Unwrap(block.format) >= Len(bvp.formats)
                    THEN ret' = [ret EXCEPT !.pc = "panicked", !.result = "panic"]
                    ELSE
                      LET format == bvp.formats[Unwrap(block.format) + 1]
                          root_block_index == bvp.modalities[1].block
                          root_block == bvp.blocks[root_block_index + 1]
                          root_volume_size == count_space(format, root_block.dimensions)
                      IN  ret' = [ret EXCEPT
                                    !.pc = "populate",
                                    !.stack = <<>>,
                                    !.format = Some(format),
                                    !.dest = Some(
                                        [NewBlock(0, root_block.dimensions,
                                                  root_block.format, None)
                                           EXCEPT !.data = Some(
                                               [j \in 1..root_volume_size |-> Uninit])]),
                                    !.frames = <<[block |-> root_block_index, k |-> 1]>>]
               ELSE
                 LET pushed == rest \o [i \in 1..Len(block.placements) |->
                                           block.placements[i].block]
                 IN  IF Len(pushed) > MaxPlacements * Len(bvp.blocks)
                     THEN ret' = [ret EXCEPT !.pc = "diverges", !.stack = <<>>]
                     ELSE ret' = [ret EXCEPT !.stack = pushed]
    /\ UNCHANGED call
    /\ UNCHANGED <<parameters, bvp_file, token, stage1, chan1, worker, locks,
                   poisoned, block_map, blocks_vec, placements_vec, chan2, stage3,
                   zip, main>>

\* One step of populate_volume: frames holds, for each call in progress, its
\* block and the placement it is at.  The innermost call returns Ok at the end
\* of its placements, writes a leaf with set_data_in_range, or calls itself on
\* a block without data.  More calls in progress than the manifest has blocks
\* are calls on a block below itself: the recursion never returns and ends
\* when the stack of the thread is exhausted ("diverges").
PopulateStep ==
    /\ ret # None /\ ret.pc = "populate"
    /\ LET bvp   == ret.state.bvp
           depth == Len(ret.frames)
           frame == ret.frames[depth]
           placements == bvp.blocks[frame.block + 1].placements
       IN
       IF frame.k > Len(placements)
       THEN ret' = IF depth = 1
                   THEN [ret EXCEPT !.pc = "write", !.frames = <<>>]
                   ELSE [ret EXCEPT !.frames = SubSeq(ret.frames, 1, depth - 1)]
       ELSE
         LET placement   == placements[frame.k]
             block_index == placement.block
             advanced    == [ret.frames EXCEPT ![depth].k = frame.k + 1]
         IN  IF block_index >= Len(bvp.blocks)
             THEN ret' = [ret EXCEPT !.pc = "panicked", !.result = "panic"]
             ELSE
               LET block == bvp.blocks[block_index + 1] IN
               IF block.data # None
               THEN LET res == set_data_in_range(Unwrap(ret.dest), placement.position,
                                                 block, Unwrap(ret.format))
                    IN  IF res.kind = "ok"
                        THEN ret' = [ret EXCEPT
                                       !.dest = Some([Unwrap(ret.dest) EXCEPT
                                                         !.data = res.data]),
                                       !.frames = advanced]
                        ELSE IF res.kind = "err"
                        THEN \* the error goes up through every call: errors.push
                             ret' = [ret EXCEPT !.pc = "returned", !.result = "Err",
                                                !.frames = <<>>]
                        ELSE ret' = [ret EXCEPT !.pc = "panicked", !.result = "panic"]
               ELSE IF depth + 1 > Len(bvp.blocks)
                    THEN ret' = [ret EXCEPT !.pc = "diverges", !.frames = <<>>]
                    ELSE ret' = [ret EXCEPT
                                   !.frames = Append(advanced,
                                                     [block |-> block_index, k |-> 1])]
    /\ UNCHANGED call
    /\ UNCHANGED <<parameters, bvp_file, token, stage1, chan1, worker, locks,
                   poisoned, block_map, blocks_vec, placements_vec, chan2, stage3,
                   zip, main>>

\* fs::write(volume_name, new_block.data.unwrap()): the bytes no leaf has
\* overwritten are those of the uninitialized buffer, any byte each; supplied
\* is the set of the positions a leaf has written
WriteOutput ==
    /\ ret # None /\ ret.pc = "write"
    /\ LET data == Unwrap(Unwrap(ret.dest).data) IN
       \E fill \in [1..Len(data) -> 0..MaxByte] :
          ret' = [ret EXCEPT
                    !.pc = "returned", !.result = "Ok",
                    !.output = Some([j \in 1..Len(data) |->
                                        IF data[j] = Uninit THEN fill[j] ELSE data[j]]),
                    !.supplied = { j \in 1..Len(data) : data[j] # Uninit }]
    /\ UNCHANGED call
    /\ UNCHANGED <<parameters, bvp_file, token, stage1, chan1, worker, locks,
                   poisoned, block_map, blocks_vec, placements_vec, chan2, stage3,
                   zip, main>>

NextRead == ReadManifest \/ FindFormatStep \/ PopulateStep \/ WriteOutput

\* the single thread of bvp2raw runs as long as it has a step to take
SpecRead == InitRead /\ [][NextRead]_vars /\ WF_vars(NextRead)

\* ------------------------------------------------------------------------
\* Properties of the reassembly
\* ------------------------------------------------------------------------

ManifestRead == call # None /\ call.op = "bvp2raw" /\ ret # None
Accepted == ManifestRead /\ ret.state.kind = "ok"
WalkEnded == ManifestRead /\ ret.pc \in {"returned", "panicked"}

\* C21: for every manifest that from_manifest accepts, the walk of find_format
\* and populate_volume from the root of the modality comes to an end.
C21_WalkTerminates == Accepted ~> WalkEnded

\* C22: from_manifest never fails other than by returning an error, and for a
\* block entry with a `data` key naming a file of the archive and no
\* `encoding` key it returns a state in which the block carries the bytes of
\* that file.
C22_DataWithoutEncoding ==
    ManifestRead =>
        LET manifest == call.files[1].data IN
        /\ ret.state.kind \in {"ok", "err"}
        /\ \A i \in 1..Len(manifest.blocks) :
              (/\ manifest.blocks[i].data = Some(LeafFile.name)
               /\ manifest.blocks[i].encoding = None)
                 => /\ ret.state.kind = "ok"
                    /\ ret.state.bvp.blocks[i].data = Some(LeafFile.data)

\* C30: every byte of a written output was supplied by a leaf block; a
\* modality with a block whose file is absent, or whose leaves do not cover
\* the root volume, is reported as an error and gives no output.
C30_OutputSuppliedByLeaves ==
    (ManifestRead /\ ret.output # None) =>
        ret.supplied = 1..Len(Unwrap(ret.output))

\* ------------------------------------------------------------------------
\* The pipeline under fair scheduling
\* ------------------------------------------------------------------------

\* the runs followed to their end: those on the volume of two cells
InitFair == Init /\ parameters.dimensions = <<2, 1, 1>>

\* some thread that can take a step eventually takes one: no thread of the
\* scope waits for anything but a channel or a Mutex
SpecFair == InitFair /\ [][Next]_vars /\ WF_vars(Next)

\* stage 1 has sent every packet and dropped its sender, every worker and
\* stage 3 have found their channel closed and returned, every packet sent
\* has been received, every file received, and the scope has joined
CleanShutdown ==
    /\ stage1.pc = "done" /\ stage1.sent = NumCells
    /\ \A w \in Workers : worker[w].pc = "done"
    /\ stage3.pc = "done"
    /\ chan1 = <<>> /\ chan2 = <<>>
    /\ main.pc = "done"

\* C23: under fair scheduling the pipeline terminates without deadlock: stage
\* 1 sends its last packet and drops its sender, every stage-2 worker finds
\* the channel closed and exits, stage 3 finds its channel closed and exits,
\* the scope joins, and every packet has been received by a worker.
C23_PipelineTerminates == <>CleanShutdown

\* C24: when the pipeline completes, the root block holds exactly one
\* placement per work packet of stage 1, at the block_start of that packet: no
\* packet has no placement or two, and no placement is at another position.
C24_OnePlacementPerPacket ==
    Completed =>
        /\ stage1.sent = NumCells
        /\ Len(RootBlock.placements) = NumCells
        /\ \A n \in 1..NumCells :
              Cardinality({ k \in 1..Len(RootBlock.placements) :
                              RootBlock.placements[k].position
                                 = WorkPacket(n).block_start }) = 1

\* a completed run of three packets whose placements were pushed in another
\* order than the packets were sent
C24_PlacedOutOfOrder ==
    /\ Completed
    /\ NumCells = 3
    /\ RootBlock.placements[1].position # WorkPacket(1).block_start
    /\ RootBlock.placements[3].position # WorkPacket(3).block_start

\* C25: in every state, for every entry hash -> id of block_map, the lookup
\* locked_blocks_vec.get(id) of the dedupe path succeeds and returns the block
\* registered under that hash, the record whose index is id, and that record
\* holds the bytes to compare with the candidate.
C25_MapEntriesResolve ==
    \A h \in DOMAIN block_map :
        LET found == VecGet(blocks_vec, block_map[h]) IN
        /\ found # None
        /\ Unwrap(found).index = block_map[h]
        /\ Unwrap(found).data # None

\* the data_url of a block record of the manifest
DataUrl(j) == j.data

\* C26: when the pipeline has completed without error, every non-root block
\* record of the manifest names exactly one written file by its data_url, no
\* file name under blocks/ is written twice, and every file under blocks/ is
\* named by the data_url of a block record.
C26_FilesMatchRecords ==
    Completed =>
        LET records == 2..Len(Manifest.blocks) IN
        /\ \A i \in records :
              /\ DataUrl(Manifest.blocks[i]) = Some(BlockUrl(i - 1))
              /\ Cardinality({ k \in BlockEntries :
                                 Some(zip[k].name) = DataUrl(Manifest.blocks[i]) }) = 1
        /\ \A k, l \in BlockEntries : zip[k].name = zip[l].name => k = l
        /\ \A k \in BlockEntries :
              \E i \in records : DataUrl(Manifest.blocks[i]) = Some(zip[k].name)

\* the errors set_data_in_range returns
SetErrors ==
    { "NoData", "FormatMismatch", "StartOutOfBounds", "EndOutOfBounds",
      "BlockInvalidPosition", "BlockInvalidSize" }

Emitted == Lz4Walk(ret.compressed, 0, 0, <<>>)

\* C28: every match sequence in an output of compress_lz4s has an offset
\* between 1 and 65535 that is at most the number of bytes the decoder has
\* produced when it reaches the sequence, and a match length of at least 4;
\* decompress_lz4s of the output computes no negative back-reference index,
\* reads no byte past the end of its input, and stops at a zero token.
C28_MatchesWellFormed ==
    Compressed =>
        /\ Emitted.stop = "zero token"
        /\ \A k \in 1..Len(Emitted.seqs) :
              LET seq == Emitted.seqs[k] IN
              /\ seq.offset <= seq.produced
              /\ seq.match_length > 0 =>
                    /\ seq.offset \in 1..65535
                    /\ seq.match_length >= 4
        /\ Decompressed => Unwrap(ret.decompressed).ok

\* an output with two matches and the trailing literals, the second match
\* reaching further back than one byte, has been decoded
C28_TwoMatchesDecoded ==
    /\ Decompressed
    /\ Len(Emitted.seqs) = 3
    /\ Emitted.seqs[1].match_length >= 4
    /\ Emitted.seqs[2].match_length >= 4
    /\ Emitted.seqs[2].offset > 1
    /\ Emitted.seqs[3].match_length = 0

\* ------------------------------------------------------------------------
\* lib/archives/saf.rs: from_saf_archive on buffers that are not archives
\* ------------------------------------------------------------------------

\* the members of the archives that are damaged: name `a`, no payload or two
\* bytes, with or without a mime type (`t`)
DamagedFiles ==
    { NewFile(<<97>>, data, mime) :
        data \in {<<>>, <<1, 2>>}, mime \in {None, Some(<<116>>)} }

\* the keys of each manifest entry in one of the orders of its HashMap
SomeOrders(objects) ==
    [i \in 1..Len(objects) |->
        CHOOSE order \in KeyOrders(DOMAIN objects[i]) : TRUE]

\* a buffer with the identifier, a declared manifest length, a manifest text
\* and payload bytes
SafBuffer(declared, text, payload) ==
    SAF_IDENTIFIER \o to_le_bytes(declared) \o text \o payload

\* The buffers: for each list of members, the archive itself; its prefixes;
\* the archive with one byte of the identifier changed; the archive with a
\* declared manifest length one less, one more, and as large as the archive;
\* the archive whose entries lack the key `path` or the key `size`.
SafBuffers ==
    UNION {
        LET objects == [i \in 1..Len(files) |-> FileHashmap(files[i])]
            text    == Stringify(objects, SomeOrders(objects))
            payload == ConcatData(files, Len(files))
            saf     == SafBuffer(Len(text), text, payload)
        IN  {saf}
            \cup { SubSeq(saf, 1, k) : k \in 0..(Len(saf) - 1) }
            \cup { [saf EXCEPT ![i] = 0] : i \in 1..SAF_IDENTIFIER_LENGTH }
            \cup { SafBuffer(n, text, payload) :
                     n \in {Len(text) - 1, Len(text) + 1, Len(saf)} }
            \cup { LET less == [i \in 1..Len(objects) |->
                                  [k \in DOMAIN objects[i] \ {key} |-> objects[i][k]]]
                       short == Stringify(less, SomeOrders(less))
                   IN  SafBuffer(Len(short), short, payload) :
                     key \in {"path", "size"} }
        : files \in UNION { [1..n -> DamagedFiles] : n \in 0..MaxSafFiles } }

InitSafRead ==
    /\ NoPipeline
    /\ \E saf \in SafBuffers : call = [op |-> "from_saf_archive", saf |-> saf]
    /\ ret = None

\* from_saf_archive(saf) on a buffer read from a file
CallFromSafBuffer ==
    /\ call # None /\ call.op = "from_saf_archive"
    /\ ret = None
    /\ ret' = from_saf_archive(call.saf)
    /\ UNCHANGED call
    /\ UNCHANGED <<parameters, bvp_file, token, stage1, chan1, worker, locks,
                   poisoned, block_map, blocks_vec, placements_vec, chan2, stage3,
                   zip, main>>

NextSafRead == CallFromSafBuffer

SpecSafRead == InitSafRead /\ [][NextSafRead]_vars

SafRead == call # None /\ call.op = "from_saf_archive" /\ ret # None

\* the identifier is at the head of the buffer
HasIdentifier(saf) ==
    /\ Len(saf) >= SAF_IDENTIFIER_LENGTH
    /\ SubSeq(saf, 1, SAF_IDENTIFIER_LENGTH) = SAF_IDENTIFIER

\* the manifest length declared at offset 12
DeclaredLength(saf) == from_le_bytes(SubSeq(saf, 13, 16))

RECURSIVE DeclaredSizes(_, _)
\* the sum of the sizes the first n manifest entries declare
DeclaredSizes(manifest_files, n) ==
    IF n = 0 THEN 0
    ELSE DeclaredSizes(manifest_files, n - 1)
         + (IF "size" \in DOMAIN manifest_files[n]
               /\ manifest_files[n]["size"].type = "number"
            THEN manifest_files[n]["size"].v ELSE 0)

\* C29: from_saf_archive never fails with an out-of-range access: a buffer
\* shorter than the 12 bytes of the identifier or than the 4-byte size field
\* gives BrokenFile, a wrong identifier gives NotValidIdentifier, and a
\* declared manifest length or a sum of declared member sizes that exceeds the
\* bytes present gives an error.
C29_MalformedGivesError ==
    SafRead =>
        LET saf == call.saf IN
        /\ ret.kind \in {"Ok", "Err"}
        /\ Len(saf) < SAF_IDENTIFIER_LENGTH
              => ret = [kind |-> "Err", error |-> "BrokenFile"]
        /\ (Len(saf) >= SAF_IDENTIFIER_LENGTH /\ ~HasIdentifier(saf))
              => ret = [kind |-> "Err", error |-> "NotValidIdentifier"]
        /\ (HasIdentifier(saf) /\ Len(saf) < SAF_IDENTIFIER_LENGTH + 4)
              => ret = [kind |-> "Err", error |-> "BrokenFile"]
        /\ (HasIdentifier(saf) /\ Len(saf) >= SAF_IDENTIFIER_LENGTH + 4) =>
              LET length == DeclaredLength(saf)
                  first  == SAF_IDENTIFIER_LENGTH + 4
              IN  /\ first + length > Len(saf) => ret.kind = "Err"
                  /\ first + length <= Len(saf) =>
                        LET j == FromStr(SubSeq(saf, first + 1, first + length)) IN
                        (j.ok /\ first + length + DeclaredSizes(j.value, Len(j.value))
                                    > Len(saf))
                            => ret.kind = "Err"

====
